---- MODULE Spec2Model ----
(***************************************************************************)
(* Investidores Pacta: the React single-page client over Firestore.        *)
(* The model covers the App component's state and effects (session, the    *)
(* projects / investors / pipeline subscriptions and the client-side       *)
(* join), the record store, and the handlers that mutate it.               *)
(*                                                                         *)
(* Conventions.  JavaScript null is Null (0) for document identifiers and  *)
(* NoUser for the identity.  Text is a sequence of atoms: an atom is a     *)
(* delimiter (";" or "\n"), a blank " ", a sign, a digit, or a word (a run *)
(* of other characters); the empty string is << >>.  A render, with the    *)
(* effects it schedules, is part of the step that changed the state.       *)
(* Accented literals of the source are written without accents.            *)
(***************************************************************************)
EXTENDS Integers, Sequences, FiniteSets, TLC

\* ---------------------------------------------------------------- bounds
MaxProjects == 2
MaxInvestors == 2
MaxHist == 2

\* ------------------------------------------------------------ identities
Null == 0
NoUser == "none"
AllUsers == {"u1", "u2"}
ProjectIdPool == 1..MaxProjects
InvestorIdPool == 1..MaxInvestors
Dates == {1, 2}

NoToast == [type |-> "none", message |-> "none", count |-> 0]
NoBatch == [kind |-> "none"]

VARIABLES
  firebase_config,             \* the configuration the environment injected
  firebaseInitializationError, \* module-level: configuration failed
  authSession,                 \* identity provider: the signed-in user
  authPending,                 \* a session-change notification is due
  authSubscribed,              \* onAuthStateChanged listener is registered
  dbProjects,                  \* store: user -> project id -> document
  dbInvestors,                 \* store: user -> investor id -> document
  dbPipeline,                  \* store: user -> project id -> investor id -> entry
  usedIds,                     \* auto-generated identifiers handed out so far
  userId, isAuthLoading, isDataLoading,
  projects, selectedProjectId, masterInvestors, projectInvestors,
  dataSubs,                    \* live listeners of the data effect (projects + investors)
  pipeSubs,                    \* live listeners of the pipeline effect
  currentPage, selectedInvestor, isMasterProfile,
  isProjectModalOpen, isCsvModalOpen, toast,
  isAddInvestorModalOpen, selectedInvestors, isAdding,
  classificationFilter, sectorFilter,
  csvData, isImporting,
  investorToDelete,
  interactionNotes,
  pending                      \* record-store calls awaiting their result

storeVars == <<dbProjects, dbInvestors, dbPipeline, usedIds>>
sessionVars == <<firebase_config, firebaseInitializationError, authSession, authPending, authSubscribed>>
appVars == <<userId, isAuthLoading, isDataLoading, projects, selectedProjectId,
             masterInvestors, projectInvestors, dataSubs, pipeSubs>>
pageVars == <<currentPage, selectedInvestor, isMasterProfile, interactionNotes>>
modalVars == <<isProjectModalOpen, isCsvModalOpen, isAddInvestorModalOpen,
               selectedInvestors, isAdding, classificationFilter, sectorFilter,
               csvData, isImporting, investorToDelete>>
addModalVars == <<isAddInvestorModalOpen, selectedInvestors, isAdding,
                  classificationFilter, sectorFilter>>
csvVars == <<isCsvModalOpen, csvData, isImporting>>
vars == <<storeVars, sessionVars, appVars, pageVars, modalVars, toast, pending>>

\* --------------------------------------------------------------- helpers
Min(S) == CHOOSE x \in S : \A y \in S : x <= y

RECURSIVE SortedSeq(_)
\* A query without orderBy returns the documents in identifier order.
SortedSeq(S) == IF S = {} THEN << >>
                ELSE <<Min(S)>> \o SortedSeq(S \ {Min(S)})

Range(s) == {s[i] : i \in 1..Len(s)}

Merge_FirstWins(a, b) ==
  [f \in (DOMAIN a) \cup (DOMAIN b) |-> IF f \in DOMAIN a THEN a[f] ELSE b[f]]

\* Object spread {...a, ...b}: every field of both, b's value where both have it.
Merge(a, b) == [f \in (DOMAIN a) \cup (DOMAIN b) |->
                  IF f \in DOMAIN b THEN b[f] ELSE a[f]]

\* snap.docs.map(d => ({ id: d.id, ...d.data() }))
SnapDocs(coll) == LET ids == SortedSeq(DOMAIN coll)
                  IN [i \in 1..Len(ids) |-> Merge([id |-> ids[i]], coll[ids[i]])]

\* pipelineSnap.docs: each document with its identifier and its data
PipelineDocs(coll) == LET ids == SortedSeq(DOMAIN coll)
                      IN [i \in 1..Len(ids) |-> [id |-> ids[i], data |-> coll[ids[i]]]]

EmptyColl == [i \in {} |-> 0]
\* ------------------------------------------------------- program constants
\* KanbanBoard.statuses, in column order
statuses == <<"Nao Contatado", "Contatado", "Reuniao Agendada", "Em Analise",
              "Investido", "Recusado">>

\* EditableStarRating renders [...Array(5)] stars; star i saves i + 1
StarCount == 5

\* the defaults handleAdd writes for a new pipeline entry
DefaultPriority == 3

DefaultEntry_NoPriority == [notaDePrioridade |-> 0, status |-> statuses[1],
                            historicoDeInteracoes |-> << >>]

DefaultEntry == [notaDePrioridade |-> DefaultPriority, status |-> statuses[1],
                 historicoDeInteracoes |-> << >>]

\* ------------------------------------------------------------- the join
\* masterInvestors.find(mi => mi.id === doc.id): the first match, if any
FindMaster(master, id) ==
  LET hits == {i \in 1..Len(master) : master[i].id = id}
  IN IF hits = {} THEN << >> ELSE <<master[Min(hits)]>>

RECURSIVE JoinFrom(_, _, _)
JoinFrom(master, docs, k) ==
  IF k > Len(docs) THEN << >>
  ELSE LET found == FindMaster(master, docs[k].id)
       IN (IF found = << >> THEN << >>
           ELSE <<Merge(Merge([id |-> docs[k].id], found[1]), docs[k].data)>>)
          \o JoinFrom(master, docs, k + 1)

Join_KeepOrphans(master, docs) ==
  [k \in 1..Len(docs) |->
     LET found == FindMaster(master, docs[k].id)
     IN Merge(Merge([id |-> docs[k].id],
                    IF found = << >> THEN [id |-> docs[k].id] ELSE found[1]),
              docs[k].data)]

\* the pipeline onSnapshot callback: map each document to the merged record
\* or null, then filter(Boolean)
Join(master, docs) == JoinFrom(master, docs, 1)

\* -------------------------------------------------------- initialisation
\* __firebase_config as the module finds it: not defined, or the parsed
\* object, whose projectId and apiKey may be absent or empty
Undefined == [defined |-> FALSE, projectId |-> << >>, apiKey |-> << >>]

FirebaseConfigs ==
  {Undefined} \cup [defined : {TRUE}, projectId : {<< >>, <<"pacta">>},
                    apiKey : {<< >>, <<"key">>}]

CompleteConfig == [defined |-> TRUE, projectId |-> <<"pacta">>, apiKey |-> <<"key">>]

InitializationError_IgnoreApiKey(config) ==
  \/ ~config.defined
  \/ config.projectId = << >>

\* the module's try/catch: the throw on a missing configuration, the throw
\* on !projectId || !apiKey; the catch stores the message
InitializationError(config) ==
  \/ ~config.defined
  \/ config.projectId = << >> \/ config.apiKey = << >>

\* ------------------------------------------------------------- rendering
\* App's render gating: error display, loader, login page, else the main view
MainView_NoLoaderGate == /\ ~firebaseInitializationError
                         /\ ~isAuthLoading
                         /\ userId # NoUser

MainView == /\ ~firebaseInitializationError
            /\ ~isAuthLoading /\ ~isDataLoading
            /\ userId # NoUser

LoginView == /\ ~firebaseInitializationError
             /\ ~isAuthLoading /\ ~isDataLoading
             /\ userId = NoUser

\* a Modal is a fixed full-viewport layer above the page
ModalOpen == \/ isProjectModalOpen \/ isCsvModalOpen
             \/ isAddInvestorModalOpen \/ investorToDelete # Null

\* renderContent: the profile replaces the page while an investor is selected
ProfileShown == MainView /\ selectedInvestor # << >>
DashboardShown == MainView /\ selectedInvestor = << >> /\ currentPage = "dashboard"
KanbanShown == MainView /\ selectedInvestor = << >> /\ currentPage = "kanban"
MasterListShown == MainView /\ selectedInvestor = << >> /\ currentPage = "master_list"

\* --------------------------------------------------------------- effects
DataCleanup_Leak(subs) == subs

\* The data effect's cleanup, () => { unsubProjects(); unsubInvestors(); }:
\* the listeners the previous run opened are released
DataCleanup(subs) == {}

\* The data effect, run when userId changes.  It opens the projects and the
\* investors listeners; the projects callback closes over the
\* selectedProjectId of the render that ran the effect.
DataEffectSubs(uid, sel) ==
  IF uid = NoUser THEN {}
  ELSE {[user |-> uid, selectedProjectId |-> sel, projDue |-> TRUE, invDue |-> TRUE,
         projDead |-> FALSE, invDead |-> FALSE]}

PipeCleanup_Leak(subs) == subs

\* The pipeline effect's cleanup, () => unsubPipeline()
PipeCleanup(subs) == {}

\* The pipeline effect, run when selectedProjectId, userId or masterInvestors
\* changes.  The callback closes over the masterInvestors of the render that
\* ran the effect.
PipeEffectSubs(uid, sel, master) ==
  IF sel = Null \/ uid = NoUser THEN {}
  ELSE {[user |-> uid, project |-> sel, master |-> master,
         due |-> TRUE, delivered |-> FALSE, dead |-> FALSE]}

\* if (!selectedProjectId || !userId) { setProjectInvestors([]); return; }
PipeEffectView(uid, sel, view) ==
  IF sel = Null \/ uid = NoUser THEN << >> ELSE view

\* a committed write makes the listeners on that collection fire again
TouchProjects(subs, u) ==
  {IF sub.user = u THEN [sub EXCEPT !.projDue = TRUE] ELSE sub : sub \in subs}

TouchInvestors(subs, u) ==
  {IF sub.user = u THEN [sub EXCEPT !.invDue = TRUE] ELSE sub : sub \in subs}

TouchPipeline(subs, u, p) ==
  {IF sub.user = u /\ sub.project = p THEN [sub EXCEPT !.due = TRUE] ELSE sub :
     sub \in subs}

\* showToast(message, type); count is the number a message interpolates
Toast(message, count, type) == [type |-> type, message |-> message, count |-> count]

\* ------------------------------------------------------------------ Init
\* App's state after the first render and its effects: the auth effect has
\* registered its listener, the data effect has found no user
InitApp ==
  /\ userId = NoUser
  /\ isAuthLoading = ~firebaseInitializationError
  /\ isDataLoading = FALSE
  /\ projects = << >> /\ selectedProjectId = Null
  /\ masterInvestors = << >> /\ projectInvestors = << >>
  /\ dataSubs = {} /\ pipeSubs = {}
  /\ currentPage = "dashboard" /\ selectedInvestor = << >>
  /\ isMasterProfile = FALSE
  /\ isProjectModalOpen = FALSE /\ isCsvModalOpen = FALSE
  /\ toast = NoToast
  /\ isAddInvestorModalOpen = FALSE /\ selectedInvestors = << >>
  /\ isAdding = FALSE
  /\ classificationFilter = << >> /\ sectorFilter = << >>
  /\ csvData = << >> /\ isImporting = FALSE
  /\ investorToDelete = Null
  /\ interactionNotes = << >>
  /\ pending = [add |-> NoBatch, import |-> NoBatch, update |-> NoBatch]

\* the configuration was accepted; a session may have been kept by the
\* identity provider, which notifies the listener once at registration
InitSession ==
  /\ firebase_config = CompleteConfig
  /\ firebaseInitializationError = InitializationError(firebase_config)
  /\ authSession \in {NoUser, "u1"}
  /\ authPending = TRUE
  /\ authSubscribed = TRUE

\* --------------------------------------------------------------- session
\* LoginPage.handleSubmit, accepted by the identity provider
SignIn(u) ==
  /\ LoginView /\ authSubscribed
  /\ authSession = NoUser /\ ~authPending
  /\ authSession' = u /\ authPending' = TRUE
  /\ UNCHANGED <<firebase_config, firebaseInitializationError, authSubscribed, storeVars, appVars,
                 pageVars, modalVars, toast, pending>>

\* the nav's "Sair" button: signOut(auth)
SignOut ==
  /\ MainView /\ ~ModalOpen
  /\ authSession # NoUser
  /\ authSession' = NoUser /\ authPending' = TRUE
  /\ UNCHANGED <<firebase_config, firebaseInitializationError, authSubscribed, storeVars, appVars,
                 pageVars, modalVars, toast, pending>>

AuthStateChanged_Reload ==
  /\ authSubscribed /\ authPending
  /\ authPending' = FALSE
  /\ userId' = authSession
  /\ isAuthLoading' = (authSession = NoUser)
  /\ IF authSession = userId
     THEN UNCHANGED <<isDataLoading, projects, masterInvestors, projectInvestors,
                      dataSubs, pipeSubs>>
     ELSE /\ dataSubs' = DataCleanup(dataSubs)
                           \cup DataEffectSubs(authSession, selectedProjectId)
          /\ isDataLoading' = (authSession # NoUser)
          /\ projects' = IF authSession = NoUser THEN << >> ELSE projects
          /\ masterInvestors' = IF authSession = NoUser THEN << >> ELSE masterInvestors
          /\ pipeSubs' = PipeCleanup(pipeSubs)
                           \cup PipeEffectSubs(authSession, selectedProjectId,
                                               masterInvestors')
          /\ projectInvestors' =
               PipeEffectView(authSession, selectedProjectId, projectInvestors)
  /\ UNCHANGED <<firebase_config, firebaseInitializationError, authSession, authSubscribed, storeVars,
                 selectedProjectId, pageVars, modalVars, toast, pending>>

\* the onAuthStateChanged callback, then the render and the effects whose
\* dependencies changed (data effect on userId; pipeline effect on userId and
\* on the fresh [] the data effect stores in masterInvestors)
AuthStateChanged ==
  /\ authSubscribed /\ authPending
  /\ authPending' = FALSE
  /\ userId' = authSession
  /\ isAuthLoading' = FALSE
  /\ IF authSession = userId
     THEN UNCHANGED <<isDataLoading, projects, masterInvestors, projectInvestors,
                      dataSubs, pipeSubs>>
     ELSE /\ dataSubs' = DataCleanup(dataSubs)
                           \cup DataEffectSubs(authSession, selectedProjectId)
          /\ isDataLoading' = (authSession # NoUser)
          /\ projects' = IF authSession = NoUser THEN << >> ELSE projects
          /\ masterInvestors' = IF authSession = NoUser THEN << >> ELSE masterInvestors
          /\ pipeSubs' = PipeCleanup(pipeSubs)
                           \cup PipeEffectSubs(authSession, selectedProjectId,
                                               masterInvestors')
          /\ projectInvestors' =
               PipeEffectView(authSession, selectedProjectId, projectInvestors)
  /\ UNCHANGED <<firebase_config, firebaseInitializationError, authSession, authSubscribed, storeVars,
                 selectedProjectId, pageVars, modalVars, toast, pending>>

\* ------------------------------------------------------------- snapshots
\* if (data.length > 0 && !selectedProjectId) setSelectedProjectId(data[0].id)
\* else if (data.length === 0) setSelectedProjectId(null); closureSel is the
\* selectedProjectId the callback closed over
SelectionAfter(data, closureSel, current) ==
  IF Len(data) > 0 /\ closureSel = Null THEN data[1].id
  ELSE IF Len(data) = 0 THEN Null ELSE current

\* the projects onSnapshot callback of a live listener
ProjectsSnapshot ==
  \E sub \in dataSubs :
    /\ sub.projDue /\ ~sub.projDead
    /\ LET data == SnapDocs(dbProjects[sub.user])
           sel == SelectionAfter(data, sub.selectedProjectId, selectedProjectId)
       IN /\ projects' = data
          /\ selectedProjectId' = sel
          /\ IF sel = selectedProjectId
             THEN UNCHANGED <<pipeSubs, projectInvestors>>
             ELSE /\ pipeSubs' = PipeCleanup(pipeSubs)
                                   \cup PipeEffectSubs(userId, sel, masterInvestors)
                  /\ projectInvestors' = PipeEffectView(userId, sel, projectInvestors)
    /\ dataSubs' = (dataSubs \ {sub}) \cup {[sub EXCEPT !.projDue = FALSE]}
    /\ UNCHANGED <<sessionVars, storeVars, userId, isAuthLoading, isDataLoading,
                   masterInvestors, pageVars, modalVars, toast, pending>>

\* the investors onSnapshot callback of a live listener; setMasterInvestors
\* stores a new array, so the pipeline effect runs again
InvestorsSnapshot ==
  \E sub \in dataSubs :
    /\ sub.invDue /\ ~sub.invDead
    /\ masterInvestors' = SnapDocs(dbInvestors[sub.user])
    /\ isDataLoading' = FALSE
    /\ pipeSubs' = PipeCleanup(pipeSubs)
                     \cup PipeEffectSubs(userId, selectedProjectId, masterInvestors')
    /\ projectInvestors' = PipeEffectView(userId, selectedProjectId, projectInvestors)
    /\ dataSubs' = (dataSubs \ {sub}) \cup {[sub EXCEPT !.invDue = FALSE]}
    /\ UNCHANGED <<sessionVars, storeVars, userId, isAuthLoading, projects,
                   selectedProjectId, pageVars, modalVars, toast, pending>>

\* the pipeline onSnapshot callback of a live listener
PipelineSnapshot ==
  \E sub \in pipeSubs :
    /\ sub.due /\ ~sub.dead
    /\ projectInvestors' =
         Join(sub.master, PipelineDocs(dbPipeline[sub.user][sub.project]))
    /\ pipeSubs' = (pipeSubs \ {sub})
                     \cup {[sub EXCEPT !.due = FALSE, !.delivered = TRUE]}
    /\ UNCHANGED <<sessionVars, storeVars, userId, isAuthLoading, isDataLoading,
                   projects, selectedProjectId, masterInvestors, dataSubs,
                   pageVars, modalVars, toast, pending>>

\* ----------------------------------------------------- listener errors
\* A listener that the store fails (permission lost, index missing) calls
\* its error callback once and delivers nothing afterwards.
\* error => console.error("Erro ao buscar projetos:", error)
ProjectsError ==
  \E sub \in dataSubs :
    /\ ~sub.projDead
    /\ dataSubs' = (dataSubs \ {sub}) \cup {[sub EXCEPT !.projDead = TRUE]}
    /\ UNCHANGED <<sessionVars, storeVars, userId, isAuthLoading, isDataLoading,
                   projects, selectedProjectId, masterInvestors, projectInvestors,
                   pipeSubs, pageVars, modalVars, toast, pending>>

InvestorsError_KeepsLoading ==
  \E sub \in dataSubs :
    /\ ~sub.invDead
    /\ dataSubs' = (dataSubs \ {sub}) \cup {[sub EXCEPT !.invDead = TRUE]}
    /\ UNCHANGED <<sessionVars, storeVars, userId, isAuthLoading, isDataLoading,
                   projects, selectedProjectId, masterInvestors, projectInvestors,
                   pipeSubs, pageVars, modalVars, toast, pending>>

\* error => { console.error(...); setIsDataLoading(false); }
InvestorsError ==
  \E sub \in dataSubs :
    /\ ~sub.invDead
    /\ isDataLoading' = FALSE
    /\ dataSubs' = (dataSubs \ {sub}) \cup {[sub EXCEPT !.invDead = TRUE]}
    /\ UNCHANGED <<sessionVars, storeVars, userId, isAuthLoading,
                   projects, selectedProjectId, masterInvestors, projectInvestors,
                   pipeSubs, pageVars, modalVars, toast, pending>>

\* error => console.error("Erro ao buscar pipeline:", error)
PipelineError ==
  \E sub \in pipeSubs :
    /\ ~sub.dead
    /\ pipeSubs' = (pipeSubs \ {sub}) \cup {[sub EXCEPT !.dead = TRUE]}
    /\ UNCHANGED <<sessionVars, storeVars, userId, isAuthLoading, isDataLoading,
                   projects, selectedProjectId, masterInvestors, projectInvestors,
                   dataSubs, pageVars, modalVars, toast, pending>>

\* ------------------------------------------------------ text (CsvImportModal)
NL == "\n"
SEMI == ";"
SP == " "
Digits == <<"0", "1", "2", "3", "4", "5", "6", "7", "8", "9">>

IsSpace(a) == a \in {SP, NL}
IsDigit(a) == \E i \in 1..10 : Digits[i] = a
DigitVal(a) == (CHOOSE i \in 1..10 : Digits[i] = a) - 1

RECURSIVE TrimStart(_)
TrimStart(s) == IF s # << >> /\ IsSpace(Head(s)) THEN TrimStart(Tail(s)) ELSE s

RECURSIVE TrimEnd(_)
TrimEnd(s) == IF s # << >> /\ IsSpace(s[Len(s)])
              THEN TrimEnd(SubSeq(s, 1, Len(s) - 1)) ELSE s

\* String.prototype.trim
Trim(s) == TrimEnd(TrimStart(s))

RECURSIVE SplitFrom(_, _, _, _)
SplitFrom(s, d, k, cur) ==
  IF k > Len(s) THEN <<cur>>
  ELSE IF s[k] = d THEN <<cur>> \o SplitFrom(s, d, k + 1, << >>)
       ELSE SplitFrom(s, d, k + 1, Append(cur, s[k]))

\* String.prototype.split(d): "" splits into one empty string
Split(s, d) == SplitFrom(s, d, 1, << >>)

NaN == [nan |-> TRUE, val |-> 0]

RECURSIVE DigitsValue(_, _, _)
\* the value of the longest run of digits of s starting at k, after acc
DigitsValue(s, k, acc) ==
  IF k <= Len(s) /\ IsDigit(s[k])
  THEN DigitsValue(s, k + 1, 10 * acc + DigitVal(s[k])) ELSE acc

\* parseInt(s, 10): leading blanks skipped, an optional sign, then the longest
\* run of digits; NaN when there is none (also for undefined, passed as << >>)
ParseInt(s) ==
  LET t == TrimStart(s)
      signed == t # << >> /\ Head(t) \in {"-", "+"}
      u == IF signed THEN Tail(t) ELSE t
  IN IF u = << >> \/ ~IsDigit(Head(u)) THEN NaN
     ELSE [nan |-> FALSE,
           val |-> IF signed /\ Head(t) = "-"
                   THEN 0 - DigitsValue(u, 1, 0) ELSE DigitsValue(u, 1, 0)]

OrZero_Unset(n) == IF n.nan THEN 0 - 1 ELSE n.val

\* x || 0 on a number: NaN and 0 are falsy
OrZero(n) == IF n.nan THEN 0 ELSE n.val

\* the header row text of expectedHeaders, column by column
HNomeFantasia == <<"NomeFantasia">>
HClassificacao == <<"Classificacao">>
HTipo == <<"Tipo">>
HSetor == <<"Setor">>
HCreditoEquity == <<"Credito/Equity">>
HNota == <<"Nota">>
HJustificativa == <<"Justificativa">>
HEmail1 == <<"Email", SP, "1">>
HEmail2 == <<"Email", SP, "2">>
HTelefone == <<"Telefone">>
HLinkedin == <<"Linkedin">>

\* const lines = csvData.trim().split('\n')
CsvLines(text) == Split(Trim(text), NL)

\* lines.shift().trim().split(';').map(h => h.trim())
CsvHeaders(text) ==
  LET cols == Split(Trim(CsvLines(text)[1]), SEMI)
  IN [i \in 1..Len(cols) |-> Trim(cols[i])]

\* headers.reduce((obj, header, index) => { obj[header] = values[index] ?
\* values[index].trim() : ''; return obj; }, {}): a later column of the same
\* name overwrites an earlier one
RowObject(headers, line) ==
  LET values == Split(Trim(line), SEMI)
      last(h) == CHOOSE i \in 1..Len(headers) :
                   /\ headers[i] = h
                   /\ \A j \in 1..Len(headers) : headers[j] = h => j <= i
  IN [h \in Range(headers) |->
        IF last(h) <= Len(values) /\ values[last(h)] # << >>
        THEN Trim(values[last(h)]) ELSE << >>]

\* investorsToImport: one object per line after the header line
InvestorsToImport(text) ==
  LET lines == CsvLines(text)
      headers == CsvHeaders(text)
  IN [i \in 1..(Len(lines) - 1) |-> RowObject(headers, lines[i + 1])]

\* investorData[name] || '' (undefined for a header the text does not have)
Field(obj, name) == IF name \in DOMAIN obj THEN obj[name] ELSE << >>

\* a Date, and the Timestamp the store keeps for it
JsDate(d) == [date |-> d]
ToTimestamp(d) == [ts |-> d.date]
\* Timestamp.toDate()
ToDate(t) == [date |-> t.ts]

\* parseInt(investorData['Nota'], 10) || 0
MappedNota(obj) == OrZero(ParseInt(Field(obj, HNota)))

\* mappedData, as batch.set stores it
MappedData(obj, now) ==
  [nomeFantasia |-> Field(obj, HNomeFantasia),
   classificacao |-> Field(obj, HClassificacao),
   tipo |-> Field(obj, HTipo),
   setor |-> Field(obj, HSetor),
   creditoEquity |-> Field(obj, HCreditoEquity),
   nota |-> MappedNota(obj),
   justificativa |-> Field(obj, HJustificativa),
   email1 |-> Field(obj, HEmail1),
   email2 |-> Field(obj, HEmail2),
   telefone |-> Field(obj, HTelefone),
   linkedin |-> Field(obj, HLinkedin),
   dataDeCriacao |-> ToTimestamp(JsDate(now))]

\* ----------------------------------------------------------- navigation
\* the nav buttons: setCurrentPage(page); setSelectedInvestor(null)
SetCurrentPage(page) ==
  /\ MainView /\ ~ModalOpen
  /\ currentPage' = page
  /\ selectedInvestor' = << >>
  /\ interactionNotes' = << >>      \* the profile, if shown, unmounts
  /\ UNCHANGED <<sessionVars, storeVars, appVars, isMasterProfile, modalVars,
                 toast, pending>>

\* ProjectSelector: a click on a project of the projects view
SelectProject(p) ==
  /\ MainView /\ ~ModalOpen
  /\ \E i \in 1..Len(projects) : projects[i].id = p
  /\ selectedProjectId' = p
  /\ IF p = selectedProjectId
     THEN UNCHANGED <<pipeSubs, projectInvestors>>
     ELSE /\ pipeSubs' = PipeCleanup(pipeSubs)
                           \cup PipeEffectSubs(userId, p, masterInvestors)
          /\ projectInvestors' = PipeEffectView(userId, p, projectInvestors)
  /\ UNCHANGED <<sessionVars, storeVars, userId, isAuthLoading, isDataLoading,
                 projects, masterInvestors, dataSubs, pageVars, modalVars,
                 toast, pending>>

\* App.handleSelectInvestor, from a row of the dashboard or a kanban card
\* (isMaster defaults to false) or from a row of the master list (true)
handleSelectInvestor(investor, isMaster) ==
  /\ ~ModalOpen
  /\ IF isMaster
     THEN MasterListShown /\ investor \in Range(masterInvestors)
     ELSE /\ DashboardShown \/ KanbanShown
          /\ selectedProjectId # Null
          /\ investor \in Range(projectInvestors)
  /\ selectedInvestor' = <<investor>>
  /\ isMasterProfile' = isMaster
  /\ UNCHANGED <<sessionVars, storeVars, appVars, currentPage, interactionNotes,
                 modalVars, toast, pending>>

\* App.handleBack
handleBack ==
  /\ ProfileShown /\ ~ModalOpen
  /\ selectedInvestor' = << >>
  /\ interactionNotes' = << >>
  /\ UNCHANGED <<sessionVars, storeVars, appVars, currentPage, isMasterProfile,
                 modalVars, toast, pending>>

\* Toast's onDismiss: the 5 s timer or the close button
DismissToast ==
  /\ MainView /\ toast # NoToast
  /\ toast' = NoToast
  /\ UNCHANGED <<sessionVars, storeVars, appVars, pageVars, modalVars, pending>>

\* ---------------------------------------------------------- ProjectForm
OpenProjectModal ==
  /\ MainView /\ ~ModalOpen
  /\ isProjectModalOpen' = TRUE
  /\ UNCHANGED <<sessionVars, storeVars, appVars, pageVars, isCsvModalOpen,
                 isAddInvestorModalOpen, selectedInvestors, isAdding,
                 classificationFilter, sectorFilter, csvData, isImporting,
                 investorToDelete, toast, pending>>

CloseProjectModal ==
  /\ MainView /\ isProjectModalOpen
  /\ isProjectModalOpen' = FALSE
  /\ UNCHANGED <<sessionVars, storeVars, appVars, pageVars, isCsvModalOpen,
                 isAddInvestorModalOpen, selectedInvestors, isAdding,
                 classificationFilter, sectorFilter, csvData, isImporting,
                 investorToDelete, toast, pending>>

\* ProjectForm.handleSubmit with no projectToEdit (App passes none): addDoc
\* under a fresh identifier, awaited; ok is the store's answer
\* { ...formData, createdAt: new Date() } as the store keeps it
ProjectDoc(name, now) ==
  [name |-> name, description |-> << >>, createdAt |-> ToTimestamp(JsDate(now))]

ProjectSubmit(name, now, ok) ==
  /\ MainView /\ isProjectModalOpen
  /\ userId # NoUser
  /\ IF ok
     THEN \E id \in ProjectIdPool \ usedIds.projects :
            /\ dbProjects' = [dbProjects EXCEPT ![userId] =
                 Merge(@, [i \in {id} |-> ProjectDoc(name, now)])]
            /\ usedIds' = [usedIds EXCEPT !.projects = @ \cup {id}]
            /\ dataSubs' = TouchProjects(dataSubs, userId)
            /\ toast' = Toast("Projeto criado com sucesso!", 0, "success")
            /\ isProjectModalOpen' = FALSE
     ELSE /\ toast' = Toast("Ocorreu um erro ao salvar o projeto.", 0, "error")
          /\ UNCHANGED <<dbProjects, usedIds, dataSubs, isProjectModalOpen>>
  /\ UNCHANGED <<sessionVars, dbInvestors, dbPipeline, userId, isAuthLoading,
                 isDataLoading, projects, selectedProjectId, masterInvestors,
                 projectInvestors, pipeSubs, pageVars, isCsvModalOpen,
                 isAddInvestorModalOpen, selectedInvestors, isAdding,
                 classificationFilter, sectorFilter, csvData, isImporting,
                 investorToDelete, pending>>

\* ------------------------------------------------------- CsvImportModal
\* ProjectSelector's "Importar Base"
OpenCsvModal ==
  /\ MainView /\ ~ModalOpen
  /\ pending.import = NoBatch      \* one import in flight at a time
  /\ isCsvModalOpen' = TRUE
  /\ UNCHANGED <<sessionVars, storeVars, appVars, pageVars, isProjectModalOpen,
                 addModalVars, csvData, isImporting, investorToDelete, toast,
                 pending>>

\* Cancelar, or the modal's X: the component unmounts with its state
CloseCsvModal ==
  /\ MainView /\ isCsvModalOpen
  /\ isCsvModalOpen' = FALSE
  /\ csvData' = << >> /\ isImporting' = FALSE
  /\ UNCHANGED <<sessionVars, storeVars, appVars, pageVars, isProjectModalOpen,
                 addModalVars, investorToDelete, toast, pending>>

\* the textarea's onChange
SetCsvData(text) ==
  /\ MainView /\ isCsvModalOpen
  /\ csvData' = text
  /\ UNCHANGED <<sessionVars, storeVars, appVars, pageVars, isProjectModalOpen,
                 addModalVars, isCsvModalOpen, isImporting, investorToDelete,
                 toast, pending>>

\* the documents one batch holds: row k under identifier ids[k]
BatchDocs(rows, ids, now) ==
  [i \in Range(ids) |->
     MappedData(rows[CHOOSE k \in 1..Len(ids) : ids[k] = i], now)]

FreshIds_Reuse(S, n) ==
  {ids \in [1..n -> InvestorIdPool] : \A a, b \in 1..n : a # b => ids[a] # ids[b]}

\* doc(investorsCollection), n times: sequences of n distinct identifiers of
\* S, the identifiers never handed out
FreshIds(S, n) ==
  {ids \in [1..n -> S] : \A a, b \in 1..n : a # b => ids[a] # ids[b]}

\* CsvImportModal.handleImport up to the await of batch.commit(): the blank
\* check, the parse, and one batch.set per row under doc(investorsCollection)
handleImport(now) ==
  /\ MainView /\ isCsvModalOpen /\ ~isImporting
  /\ IF Trim(csvData) = << >>
     THEN /\ toast' = Toast("Por favor, cole os dados do seu CSV.", 0, "error")
          /\ UNCHANGED <<isImporting, pending, usedIds>>
     ELSE LET rows == InvestorsToImport(csvData)
          IN \E ids \in FreshIds(InvestorIdPool \ usedIds.investors, Len(rows)) :
               /\ isImporting' = TRUE
               /\ usedIds' = [usedIds EXCEPT !.investors = @ \cup Range(ids)]
               /\ pending' = [pending EXCEPT !.import =
                    [kind |-> "import", user |-> userId,
                     docs |-> BatchDocs(rows, ids, now), n |-> Len(rows)]]
               /\ UNCHANGED toast
  /\ UNCHANGED <<sessionVars, dbProjects, dbInvestors, dbPipeline, appVars,
                 pageVars, isProjectModalOpen, addModalVars, isCsvModalOpen,
                 csvData, investorToDelete>>

\* batch.commit() resolves: every set of the batch is applied at once; then
\* the success toast, onClose() and the finally clause
ImportCommitOk ==
  /\ pending.import # NoBatch
  /\ LET b == pending.import
     IN /\ dbInvestors' = [dbInvestors EXCEPT ![b.user] = Merge(@, b.docs)]
        /\ dataSubs' = IF b.n > 0 THEN TouchInvestors(dataSubs, b.user) ELSE dataSubs
        /\ toast' = Toast("investidores importados com sucesso!", b.n, "success")
  /\ isCsvModalOpen' = FALSE
  /\ csvData' = << >> /\ isImporting' = FALSE
  /\ pending' = [pending EXCEPT !.import = NoBatch]
  /\ UNCHANGED <<sessionVars, dbProjects, dbPipeline, usedIds, userId,
                 isAuthLoading, isDataLoading, projects, selectedProjectId,
                 masterInvestors, projectInvestors, pipeSubs, pageVars,
                 isProjectModalOpen, addModalVars, investorToDelete>>

ImportCommitFail_Partial ==
  /\ pending.import # NoBatch
  /\ LET b == pending.import
         done == IF DOMAIN b.docs = {} THEN {} ELSE {Min(DOMAIN b.docs)}
     IN dbInvestors' = [dbInvestors EXCEPT ![b.user] =
                          Merge(@, [i \in done |-> b.docs[i]])]
  /\ toast' = Toast("Ocorreu um erro na importacao.", 0, "error")
  /\ isImporting' = FALSE
  /\ pending' = [pending EXCEPT !.import = NoBatch]
  /\ UNCHANGED <<sessionVars, dbProjects, dbPipeline, usedIds, appVars, pageVars,
                 isProjectModalOpen, addModalVars, isCsvModalOpen, csvData,
                 investorToDelete>>

\* batch.commit() rejects: nothing of the batch is stored; the error toast
\* and the finally clause
ImportCommitFail ==
  /\ pending.import # NoBatch
  /\ toast' = Toast("Ocorreu um erro na importacao.", 0, "error")
  /\ isImporting' = FALSE
  /\ pending' = [pending EXCEPT !.import = NoBatch]
  /\ UNCHANGED <<sessionVars, storeVars, appVars, pageVars, isProjectModalOpen,
                 addModalVars, isCsvModalOpen, csvData, investorToDelete>>

\* -------------------------------------------- AddInvestorToProjectModal
availableInvestors_EitherFilter ==
  LET projectInvestorIds == {projectInvestors[i].id : i \in 1..Len(projectInvestors)}
  IN SelectSeq(masterInvestors, LAMBDA mi :
       /\ mi.id \notin projectInvestorIds
       /\ \/ classificationFilter = << >> \/ mi.classificacao = classificationFilter
          \/ sectorFilter = << >> \/ mi.setor = sectorFilter)

\* masterInvestors.filter(mi => !projectInvestorIds.has(mi.id) && ...)
availableInvestors ==
  LET projectInvestorIds == {projectInvestors[i].id : i \in 1..Len(projectInvestors)}
  IN SelectSeq(masterInvestors, LAMBDA mi :
       /\ mi.id \notin projectInvestorIds
       /\ (classificationFilter = << >> \/ mi.classificacao = classificationFilter)
       /\ (sectorFilter = << >> \/ mi.setor = sectorFilter))

\* Dashboard's "Adicionar" button
OpenAddModal ==
  /\ DashboardShown /\ ~ModalOpen
  /\ selectedProjectId # Null
  /\ pending.add = NoBatch         \* one add in flight at a time
  /\ isAddInvestorModalOpen' = TRUE
  /\ UNCHANGED <<sessionVars, storeVars, appVars, pageVars, isProjectModalOpen,
                 selectedInvestors, isAdding, classificationFilter, sectorFilter,
                 csvVars, investorToDelete, toast, pending>>

\* Cancelar, or the modal's X: the component unmounts with its state
CloseAddModal ==
  /\ MainView /\ isAddInvestorModalOpen
  /\ isAddInvestorModalOpen' = FALSE
  /\ selectedInvestors' = << >> /\ isAdding' = FALSE
  /\ classificationFilter' = << >> /\ sectorFilter' = << >>
  /\ UNCHANGED <<sessionVars, storeVars, appVars, pageVars, isProjectModalOpen,
                 csvVars, investorToDelete, toast, pending>>

\* the two filter selects; the options are the master list's own tags
SetFilters(c, s) ==
  /\ MainView /\ isAddInvestorModalOpen
  /\ c = << >> \/ \E i \in 1..Len(masterInvestors) : masterInvestors[i].classificacao = c
  /\ s = << >> \/ \E i \in 1..Len(masterInvestors) : masterInvestors[i].setor = s
  /\ classificationFilter' = c /\ sectorFilter' = s
  /\ UNCHANGED <<sessionVars, storeVars, appVars, pageVars, isProjectModalOpen,
                 isAddInvestorModalOpen, selectedInvestors, isAdding, csvVars,
                 investorToDelete, toast, pending>>

\* toggleSelection, from a checkbox of the candidate list
toggleSelection(investorId) ==
  /\ MainView /\ isAddInvestorModalOpen
  /\ \E i \in 1..Len(availableInvestors) : availableInvestors[i].id = investorId
  /\ selectedInvestors' =
       IF investorId \in Range(selectedInvestors)
       THEN SelectSeq(selectedInvestors, LAMBDA id : id # investorId)
       ELSE Append(selectedInvestors, investorId)
  /\ UNCHANGED <<sessionVars, storeVars, appVars, pageVars, isProjectModalOpen,
                 isAddInvestorModalOpen, isAdding, classificationFilter,
                 sectorFilter, csvVars, investorToDelete, toast, pending>>

\* AddInvestorToProjectModal.handleAdd up to the await of batch.commit()
handleAdd ==
  /\ MainView /\ isAddInvestorModalOpen /\ ~isAdding
  /\ Len(selectedInvestors) # 0
  /\ isAdding' = TRUE
  /\ pending' = [pending EXCEPT !.add =
       [kind |-> "add", user |-> userId, project |-> selectedProjectId,
        ids |-> selectedInvestors]]
  /\ UNCHANGED <<sessionVars, storeVars, appVars, pageVars, isProjectModalOpen,
                 isAddInvestorModalOpen, selectedInvestors, classificationFilter,
                 sectorFilter, csvVars, investorToDelete, toast>>

\* batch.commit() resolves: one set per selected identifier, at the path
\* .../projects/<project>/pipeline/<investorId>
AddCommitOk ==
  /\ pending.add # NoBatch
  /\ LET b == pending.add
     IN /\ dbPipeline' = [dbPipeline EXCEPT ![b.user][b.project] =
             Merge(@, [i \in Range(b.ids) |-> DefaultEntry])]
        /\ pipeSubs' = TouchPipeline(pipeSubs, b.user, b.project)
        /\ toast' = Toast("investidor(es) adicionado(s) com sucesso!", Len(b.ids),
                          "success")
  /\ isAddInvestorModalOpen' = FALSE
  /\ selectedInvestors' = << >> /\ isAdding' = FALSE
  /\ classificationFilter' = << >> /\ sectorFilter' = << >>
  /\ pending' = [pending EXCEPT !.add = NoBatch]
  /\ UNCHANGED <<sessionVars, dbProjects, dbInvestors, usedIds, userId,
                 isAuthLoading, isDataLoading, projects, selectedProjectId,
                 masterInvestors, projectInvestors, dataSubs, pageVars,
                 isProjectModalOpen, csvVars, investorToDelete>>

\* batch.commit() rejects
AddCommitFail ==
  /\ pending.add # NoBatch
  /\ toast' = Toast("Falha ao adicionar investidores.", 0, "error")
  /\ isAdding' = FALSE
  /\ pending' = [pending EXCEPT !.add = NoBatch]
  /\ UNCHANGED <<sessionVars, storeVars, appVars, pageVars, isProjectModalOpen,
                 isAddInvestorModalOpen, selectedInvestors, classificationFilter,
                 sectorFilter, csvVars, investorToDelete>>

\* --------------------------------------------------- MasterInvestorList
\* handleDeleteClick: opens the confirmation for a row of the master list
handleDeleteClick(investor) ==
  /\ MasterListShown /\ ~ModalOpen
  /\ investor \in Range(masterInvestors)
  /\ investorToDelete' = investor.id
  /\ UNCHANGED <<sessionVars, storeVars, appVars, pageVars, isProjectModalOpen,
                 addModalVars, csvVars, toast, pending>>

\* the confirmation's Cancelar / X
CancelDelete ==
  /\ MasterListShown /\ investorToDelete # Null
  /\ investorToDelete' = Null
  /\ UNCHANGED <<sessionVars, storeVars, appVars, pageVars, isProjectModalOpen,
                 addModalVars, csvVars, toast, pending>>

\* a collection without the document id
Without(coll, id) == [i \in (DOMAIN coll) \ {id} |-> coll[i]]

confirmDelete_Cascade(ok) ==
  /\ MasterListShown /\ investorToDelete # Null
  /\ IF ok
     THEN /\ dbInvestors' = [dbInvestors EXCEPT ![userId] = Without(@, investorToDelete)]
          /\ dataSubs' = TouchInvestors(dataSubs, userId)
          /\ dbPipeline' = [dbPipeline EXCEPT ![userId] =
                              [p \in DOMAIN @ |-> Without(@[p], investorToDelete)]]
          /\ toast' = Toast("foi excluido.", 0, "success")
     ELSE /\ toast' = Toast("Falha ao excluir.", 0, "error")
          /\ UNCHANGED <<dbInvestors, dataSubs, dbPipeline>>
  /\ investorToDelete' = Null
  /\ UNCHANGED <<sessionVars, dbProjects, usedIds, userId,
                 isAuthLoading, isDataLoading, projects, selectedProjectId,
                 masterInvestors, projectInvestors, pipeSubs, pageVars,
                 isProjectModalOpen, addModalVars, csvVars, pending>>

\* confirmDelete: deleteDoc of the master record, awaited; ok is the store's
\* answer
confirmDelete(ok) ==
  /\ MasterListShown /\ investorToDelete # Null
  /\ IF ok
     THEN /\ dbInvestors' = [dbInvestors EXCEPT ![userId] = Without(@, investorToDelete)]
          /\ dataSubs' = TouchInvestors(dataSubs, userId)
          /\ toast' = Toast("foi excluido.", 0, "success")
     ELSE /\ toast' = Toast("Falha ao excluir.", 0, "error")
          /\ UNCHANGED <<dbInvestors, dataSubs>>
  /\ investorToDelete' = Null
  /\ UNCHANGED <<sessionVars, dbProjects, dbPipeline, usedIds, userId,
                 isAuthLoading, isDataLoading, projects, selectedProjectId,
                 masterInvestors, projectInvestors, pipeSubs, pageVars,
                 isProjectModalOpen, addModalVars, csvVars, pending>>

\* ------------------------------------------------ Dashboard / KanbanBoard
\* updateDoc(ref, fields): merges the fields into an existing document and
\* rejects when there is none
CanUpdate(u, p, id) == id \in DOMAIN dbPipeline[u][p]

UpdatedPipeline_Replace(u, p, id, fields) ==
  [dbPipeline EXCEPT ![u][p][id] = fields]

UpdatedPipeline(u, p, id, fields) ==
  [dbPipeline EXCEPT ![u][p][id] = Merge(@, fields)]

\* Dashboard.handlePriorityChange and KanbanBoard.handlePriorityChange: a
\* star of a row's EditableStarRating issues updateDoc and awaits the answer
handlePriorityChange(investorId, newPriority) ==
  /\ DashboardShown \/ KanbanShown
  /\ ~ModalOpen
  /\ userId # NoUser /\ selectedProjectId # Null
  /\ \E i \in 1..Len(projectInvestors) : projectInvestors[i].id = investorId
  /\ newPriority \in 1..StarCount
  /\ pending.update = NoBatch      \* one update in flight at a time
  /\ pending' = [pending EXCEPT !.update =
                   [kind |-> "update", user |-> userId, project |-> selectedProjectId,
                    id |-> investorId,
                    fields |-> [notaDePrioridade |-> newPriority]]]
  /\ UNCHANGED <<sessionVars, storeVars, appVars, pageVars, modalVars, toast>>

handleDrop_ForwardOnly(investorId, newStatus) ==
  /\ KanbanShown /\ ~ModalOpen
  /\ userId # NoUser /\ selectedProjectId # Null
  /\ \E i \in 1..Len(projectInvestors) :
       /\ projectInvestors[i].id = investorId
       /\ projectInvestors[i].status \in Range(statuses)
       /\ \E a, b \in 1..Len(statuses) :
            /\ statuses[a] = projectInvestors[i].status
            /\ statuses[b] = newStatus /\ a <= b
  /\ newStatus \in Range(statuses)
  /\ pending.update = NoBatch
  /\ pending' = [pending EXCEPT !.update =
                   [kind |-> "update", user |-> userId, project |-> selectedProjectId,
                    id |-> investorId, fields |-> [status |-> newStatus]]]
  /\ UNCHANGED <<sessionVars, storeVars, appVars, pageVars, modalVars, toast>>

\* KanbanBoard.handleDrop: a card of the board dropped on a status column
\* issues updateDoc and awaits the answer
handleDrop(investorId, newStatus) ==
  /\ KanbanShown /\ ~ModalOpen
  /\ userId # NoUser /\ selectedProjectId # Null
  /\ \E i \in 1..Len(projectInvestors) :
       /\ projectInvestors[i].id = investorId
       /\ projectInvestors[i].status \in Range(statuses)
  /\ newStatus \in Range(statuses)
  /\ pending.update = NoBatch
  /\ pending' = [pending EXCEPT !.update =
                   [kind |-> "update", user |-> userId, project |-> selectedProjectId,
                    id |-> investorId, fields |-> [status |-> newStatus]]]
  /\ UNCHANGED <<sessionVars, storeVars, appVars, pageVars, modalVars, toast>>

\* the store applies the update; the three handlers do nothing more
UpdateOk ==
  /\ pending.update # NoBatch
  /\ LET b == pending.update
     IN /\ CanUpdate(b.user, b.project, b.id)
        /\ dbPipeline' = UpdatedPipeline(b.user, b.project, b.id, b.fields)
        /\ pipeSubs' = TouchPipeline(pipeSubs, b.user, b.project)
  /\ pending' = [pending EXCEPT !.update = NoBatch]
  /\ UNCHANGED <<sessionVars, dbProjects, dbInvestors, usedIds, userId,
                 isAuthLoading, isDataLoading, projects, selectedProjectId,
                 masterInvestors, projectInvestors, dataSubs, pageVars, modalVars,
                 toast>>

\* the store rejects the update: catch (error) { console.error(...) }
UpdateFail ==
  /\ pending.update # NoBatch
  /\ pending' = [pending EXCEPT !.update = NoBatch]
  /\ UNCHANGED <<sessionVars, storeVars, appVars, pageVars, modalVars, toast>>

\* -------------------------------------------------------- InvestorProfile
\* the notes textarea's onChange
SetInteractionNotes(notes) ==
  /\ ProfileShown /\ ~isMasterProfile /\ ~ModalOpen
  /\ interactionNotes' = notes
  /\ UNCHANGED <<sessionVars, storeVars, appVars, currentPage, selectedInvestor,
                 isMasterProfile, modalVars, toast, pending>>

\* investor.historicoDeInteracoes ? ....map(item => ({...item, data:
\* item.data.toDate()})) : []
existingInteractions(investor) ==
  IF "historicoDeInteracoes" \in DOMAIN investor
  THEN [i \in 1..Len(investor.historicoDeInteracoes) |->
          [investor.historicoDeInteracoes[i] EXCEPT !.data = ToDate(@)]]
  ELSE << >>

\* an array of interactions as the store keeps it: each Date a Timestamp
StoredInteractions(list) ==
  [i \in 1..Len(list) |-> [list[i] EXCEPT !.data = ToTimestamp(@)]]

\* InvestorProfile.handleAddInteraction: updateDoc of historicoDeInteracoes
\* with the displayed investor's history plus the new interaction, awaited
handleAddInteraction(tipo, now, ok) ==
  /\ ProfileShown /\ ~ModalOpen
  /\ Trim(interactionNotes) # << >>
  /\ userId # NoUser /\ selectedProjectId # Null /\ ~isMasterProfile
  /\ LET investor == selectedInvestor[1]
         newInteraction == [data |-> JsDate(now), tipo |-> tipo,
                            anotacoes |-> interactionNotes]
         list == Append(existingInteractions(investor), newInteraction)
     IN /\ Len(list) <= MaxHist
        /\ IF ok /\ CanUpdate(userId, selectedProjectId, investor.id)
           THEN /\ dbPipeline' = UpdatedPipeline(userId, selectedProjectId, investor.id,
                     [historicoDeInteracoes |-> StoredInteractions(list)])
                /\ pipeSubs' = TouchPipeline(pipeSubs, userId, selectedProjectId)
                /\ interactionNotes' = << >>
                /\ toast' = Toast("Interacao adicionada com sucesso!", 0, "success")
           ELSE /\ toast' = Toast("Erro ao adicionar interacao.", 0, "error")
                /\ UNCHANGED <<dbPipeline, pipeSubs, interactionNotes>>
  /\ UNCHANGED <<sessionVars, dbProjects, dbInvestors, usedIds, userId,
                 isAuthLoading, isDataLoading, projects, selectedProjectId,
                 masterInvestors, projectInvestors, dataSubs, currentPage,
                 selectedInvestor, isMasterProfile, modalVars, pending>>

\* ------------------------------------------------ inputs of the main model
ProjectNames == {<<"Alpha">>}
InteractionTypes == {"Email", "Reuniao"}
NoteTexts == {<<"ok">>}

\* render a grid of cells as text: cells joined by ";", lines by "\n"
RECURSIVE JoinWith(_, _)
JoinWith(parts, d) ==
  IF parts = << >> THEN << >>
  ELSE IF Len(parts) = 1 THEN parts[1]
       ELSE parts[1] \o <<d>> \o JoinWith(Tail(parts), d)

CsvText(grid) == JoinWith([i \in 1..Len(grid) |-> JoinWith(grid[i], SEMI)], NL)

CoreHeader == <<HNomeFantasia, HClassificacao, HNota>>
CoreRowA == << <<"Acme">>, <<"VC">>, <<"4">> >>
CoreRowB == << <<"Bolt">>, <<"PE">>, <<"x">> >>

\* the texts pasted in the main model: one data line, or two
CoreCsvTexts == {CsvText(<<CoreHeader, CoreRowA>>),
                 CsvText(<<CoreHeader, CoreRowA, CoreRowB>>)}

\* ------------------------------------------------------------ store seeds
\* Stores an account can hold when the app starts: projects created by
\* ProjectForm, investors imported by CsvImportModal, entries added by
\* AddInvestorToProjectModal in earlier sessions of user "u1".
EmptyStore == [u \in AllUsers |-> EmptyColl]

EmptyPipelines == [u \in AllUsers |-> [p \in ProjectIdPool |-> EmptyColl]]

SeedProjects ==
  [u \in AllUsers |->
     IF u = "u1" THEN [p \in ProjectIdPool |-> ProjectDoc(<<"Alpha">>, 1)]
     ELSE EmptyColl]

SeedRows == InvestorsToImport(CsvText(<<CoreHeader, CoreRowA, CoreRowB>>))

SeedInvestors ==
  [u \in AllUsers |->
     IF u = "u1"
     THEN [i \in InvestorIdPool |-> MappedData(SeedRows[((i - 1) % 2) + 1], 1)]
     ELSE EmptyColl]

\* an entry whose priority and status were edited after it was added
EditedEntry == [notaDePrioridade |-> StarCount, status |-> statuses[2],
                historicoDeInteracoes |-> << >>]

\* the first project's pipeline already holds the first investor
SeedPipelineOne ==
  [u \in AllUsers |-> [p \in ProjectIdPool |->
     IF u = "u1" /\ p = 1 THEN [i \in {1} |-> EditedEntry] ELSE EmptyColl]]

\* the first project's pipeline holds every investor, the others the first
SeedPipelineAll ==
  [u \in AllUsers |-> [p \in ProjectIdPool |->
     IF u # "u1" THEN EmptyColl
     ELSE IF p = 1 THEN [i \in InvestorIdPool |-> DefaultEntry]
          ELSE [i \in {1} |-> EditedEntry]]]

\* ------------------------------------------------------------------ Spec
\* The main model: user "u1" with projects and a master list; the session
\* starts, the three listeners deliver, the user selects projects and adds
\* investors to their pipelines.
Init ==
  /\ InitSession
  /\ dbProjects = SeedProjects
  /\ dbInvestors = SeedInvestors
  /\ dbPipeline = SeedPipelineOne
  /\ usedIds = [projects |-> ProjectIdPool, investors |-> InvestorIdPool]
  /\ InitApp

SessionStep ==
  \/ \E u \in {"u1"} : SignIn(u)
  \/ AuthStateChanged

SnapshotStep ==
  \/ ProjectsSnapshot
  \/ InvestorsSnapshot
  \/ PipelineSnapshot

SelectStep == \E p \in ProjectIdPool : SelectProject(p)

AddStep ==
  \/ OpenAddModal
  \/ CloseAddModal
  \/ \E id \in InvestorIdPool : toggleSelection(id)
  \/ handleAdd
  \/ AddCommitOk
  \/ AddCommitFail

Next ==
  \/ SessionStep
  \/ SnapshotStep
  \/ SelectStep
  \/ AddStep

Spec == Init /\ [][Next]_vars

\* ------------------------------------------------------------- SpecBatch
\* The two batched writes together: the account starts with projects and no
\* investors; the user imports investors and adds them to pipelines.
InitBatch ==
  /\ InitSession
  /\ dbProjects = SeedProjects
  /\ dbInvestors = EmptyStore
  /\ dbPipeline = EmptyPipelines
  /\ usedIds = [projects |-> ProjectIdPool, investors |-> {}]
  /\ InitApp

ImportStep ==
  \/ OpenCsvModal
  \/ CloseCsvModal
  \/ \E text \in CoreCsvTexts : SetCsvData(text)
  \/ \E now \in {1} : handleImport(now)
  \/ ImportCommitOk
  \/ ImportCommitFail

NextBatch ==
  \/ SessionStep
  \/ SnapshotStep
  \/ ImportStep
  \/ AddStep

SpecBatch == InitBatch /\ [][NextBatch]_vars

\* ------------------------------------------------------------ SpecSelect
\* Reselection: the account's pipelines hold entries, the user moves between
\* projects while priorities are edited on the dashboard.
InitSelect ==
  /\ InitSession
  /\ dbProjects = SeedProjects
  /\ dbInvestors = SeedInvestors
  /\ dbPipeline = SeedPipelineAll
  /\ usedIds = [projects |-> ProjectIdPool, investors |-> InvestorIdPool]
  /\ InitApp

PriorityStep ==
  \/ \E id \in InvestorIdPool, n \in {1, StarCount} : handlePriorityChange(id, n)
  \/ UpdateOk
  \/ UpdateFail

NextSelect ==
  \/ SessionStep
  \/ SnapshotStep
  \/ SelectStep
  \/ PriorityStep

SpecSelect == InitSelect /\ [][NextSelect]_vars

\* --------------------------------------------------------------- SpecAdd
\* The add dialog alone, on the project selected at load.
NextAdd ==
  \/ SessionStep
  \/ SnapshotStep
  \/ AddStep

SpecAdd == Init /\ [][NextAdd]_vars

\* ----------------------------------------------------------- SpecProfile
\* The investor profile: the account's pipelines hold entries; the user
\* opens profiles from the dashboard and logs interactions.
InitProfile ==
  /\ InitSession
  /\ dbProjects = SeedProjects
  /\ dbInvestors = SeedInvestors
  /\ dbPipeline = SeedPipelineAll
  /\ usedIds = [projects |-> ProjectIdPool, investors |-> InvestorIdPool]
  /\ InitApp

ProfileStep ==
  \/ \E i \in 1..Len(projectInvestors) : handleSelectInvestor(projectInvestors[i], FALSE)
  \/ handleBack
  \/ \E notes \in NoteTexts : SetInteractionNotes(notes)
  \/ \E tipo \in InteractionTypes, now \in {1}, ok \in BOOLEAN :
       handleAddInteraction(tipo, now, ok)

NextProfile ==
  \/ SessionStep
  \/ SnapshotStep
  \/ ProfileStep

SpecProfile == InitProfile /\ [][NextProfile]_vars

\* ------------------------------------------------------------ SpecDelete
\* Deleting master investors that pipelines refer to.
InitDelete ==
  /\ InitSession
  /\ dbProjects = SeedProjects
  /\ dbInvestors = SeedInvestors
  /\ dbPipeline = SeedPipelineAll
  /\ usedIds = [projects |-> ProjectIdPool, investors |-> InvestorIdPool]
  /\ InitApp

PageStep == \E page \in {"dashboard", "kanban", "master_list"} : SetCurrentPage(page)

DeleteStep ==
  \/ \E i \in 1..Len(masterInvestors) : handleDeleteClick(masterInvestors[i])
  \/ CancelDelete
  \/ \E ok \in BOOLEAN : confirmDelete(ok)

NextDelete ==
  \/ SessionStep
  \/ SnapshotStep
  \/ SelectStep
  \/ PageStep
  \/ DeleteStep

SpecDelete == InitDelete /\ [][NextDelete]_vars

\* -------------------------------------------------------------- SpecJoin
\* The join on arbitrary store contents.  The store is shared with the
\* account's other clients, so a pipeline document may name an investor the
\* master list lacks, lack a field handleAdd writes, or carry a field of the
\* master record's names.
JoinIdPool == 1..(MaxInvestors + 1)

JoinEntries == {DefaultEntry,
                [status |-> statuses[2]],
                [notaDePrioridade |-> 1, nota |-> 9, nomeFantasia |-> <<"Zeta">>]}

JoinMasters ==
  {[i \in S |-> SeedInvestors["u1"][i]] : S \in SUBSET InvestorIdPool}

JoinPipelines ==
  UNION {[S -> JoinEntries] : S \in SUBSET JoinIdPool}

InitJoin ==
  /\ InitSession
  /\ dbProjects = SeedProjects
  /\ \E m \in JoinMasters :
       dbInvestors = [u \in AllUsers |-> IF u = "u1" THEN m ELSE EmptyColl]
  /\ \E pl \in JoinPipelines :
       dbPipeline = [u \in AllUsers |-> [p \in ProjectIdPool |->
                       IF u = "u1" /\ p = 1 THEN pl ELSE EmptyColl]]
  /\ usedIds = [projects |-> ProjectIdPool, investors |-> InvestorIdPool]
  /\ InitApp

NextJoin ==
  \/ SessionStep
  \/ SnapshotStep

SpecJoin == InitJoin /\ [][NextJoin]_vars

\* ------------------------------------------------------------ SpecImport
\* The bulk import on pasted texts of several shapes: headers in the expected
\* order, in another order, or missing; data lines with a numeric rating, a
\* rating that is no number, one that starts with a number, and lines with
\* fewer cells than headers; blank texts and texts of a header line only.
HeaderSwapped == <<HNota, HEmail1, HNomeFantasia>>
HeaderNoNota == <<HNomeFantasia, HSetor>>

RowShort == << <<"Cia">> >>
RowPrefix == << <<"Dax">>, << >>, <<"3", "x">> >>

\* a header line and at least one data line
ImportGrids ==
  {<<CoreHeader, CoreRowA, CoreRowB>>, <<CoreHeader, CoreRowB>>,
   <<CoreHeader, RowPrefix>>, <<HeaderSwapped, RowShort>>,
   <<HeaderNoNota, CoreRowA>>}

HeaderOnlyGrids == {<<CoreHeader>>}

BlankTexts == {<< >>, <<SP, NL, SP>>}

\* the same grid typed with blanks around the cells and an empty last line
PaddedText(grid) ==
  <<SP>> \o CsvText([r \in 1..Len(grid) |->
                       [c \in 1..Len(grid[r]) |-> <<SP>> \o grid[r][c] \o <<SP>>]])
         \o <<NL>>

PaddedGrids == {<<CoreHeader, CoreRowB>>}

TextsOf(grid) ==
  {CsvText(grid)} \cup (IF grid \in PaddedGrids THEN {PaddedText(grid)} ELSE {})

ImportTexts ==
  UNION {TextsOf(g) : g \in ImportGrids \cup HeaderOnlyGrids} \cup BlankTexts

\* the master list holds nothing, or one investor of an earlier import
SeedOneInvestor ==
  [u \in AllUsers |->
     IF u = "u1" THEN [i \in {1} |-> SeedInvestors["u1"][1]] ELSE EmptyColl]

InitImport ==
  /\ InitSession
  /\ dbProjects = SeedProjects
  /\ dbInvestors \in {EmptyStore, SeedOneInvestor}
  /\ dbPipeline = EmptyPipelines
  /\ usedIds = [projects |-> ProjectIdPool, investors |-> DOMAIN dbInvestors["u1"]]
  /\ InitApp

\* the user pastes one text into the empty box and presses "Importar"; the
\* store accepts the batch (SpecBatch has the commits that fail)
ImportTextStep ==
  \/ OpenCsvModal
  \/ CloseCsvModal
  \/ \E text \in ImportTexts : csvData = << >> /\ SetCsvData(text)
  \/ \E now \in {1} : handleImport(now)
  \/ ImportCommitOk

NextImport ==
  \/ SessionStep
  \/ SnapshotStep
  \/ ImportTextStep

SpecImport == InitImport /\ [][NextImport]_vars

\* ------------------------------------------------------------ SpecFilter
\* The add dialog's filters over master lists tagged with classifications
\* and sectors, against pipelines that hold any of the investors.
FilterClasses == {<<"VC">>, <<"PE">>}
FilterSectors == {<<"Tech">>, << >>}

FilterMasters ==
  [InvestorIdPool ->
     {[SeedInvestors["u1"][1] EXCEPT !.classificacao = c, !.setor = t] :
        c \in FilterClasses, t \in FilterSectors}]

InitFilter ==
  /\ InitSession
  /\ dbProjects = SeedProjects
  /\ \E m \in FilterMasters :
       dbInvestors = [u \in AllUsers |-> IF u = "u1" THEN m ELSE EmptyColl]
  /\ \E S \in SUBSET InvestorIdPool :
       dbPipeline = [u \in AllUsers |-> [p \in ProjectIdPool |->
                       IF u = "u1" /\ p = 1 THEN [i \in S |-> DefaultEntry]
                       ELSE EmptyColl]]
  /\ usedIds = [projects |-> ProjectIdPool, investors |-> InvestorIdPool]
  /\ InitApp

FilterStep ==
  \/ OpenAddModal
  \/ CloseAddModal
  \/ \E c \in FilterClasses \cup {<< >>}, t \in FilterSectors : SetFilters(c, t)

NextFilter ==
  \/ SessionStep
  \/ SnapshotStep
  \/ FilterStep

SpecFilter == InitFilter /\ [][NextFilter]_vars

\* ----------------------------------------------------------- SpecSession
\* Two accounts on one browser: "u1" holds a project, whose generated
\* identifier sorts before or after the next one, "u2" holds none.  The
\* users sign in and out, select projects and create projects.
InitAccounts ==
  /\ InitSession
  /\ \E held \in ProjectIdPool :
       /\ dbProjects = [u \in AllUsers |->
                          IF u = "u1" THEN [p \in {held} |-> ProjectDoc(<<"Alpha">>, 1)]
                          ELSE EmptyColl]
       /\ dbPipeline = [u \in AllUsers |-> [p \in ProjectIdPool |->
                          IF u = "u1" /\ p = held THEN [i \in {1} |-> EditedEntry]
                          ELSE EmptyColl]]
       /\ usedIds = [projects |-> {held}, investors |-> InvestorIdPool]
  /\ dbInvestors = SeedInvestors
  /\ InitApp

NextSession ==
  \/ \E u \in AllUsers : SignIn(u)
  \/ SignOut
  \/ AuthStateChanged
  \/ SnapshotStep
  \/ SelectStep
  \/ OpenProjectModal
  \/ CloseProjectModal
  \/ \E name \in ProjectNames, now \in {1}, ok \in BOOLEAN :
       ProjectSubmit(name, now, ok)

SpecSession == InitAccounts /\ [][NextSession]_vars

\* ------------------------------------------------------------ SpecConfig
\* The module is loaded with any injected configuration; where it is
\* accepted the user works on the master list as in SpecDelete.  A rejected
\* configuration leaves no identity provider: the auth effect returns before
\* it registers its listener.
InitConfig ==
  /\ firebase_config \in FirebaseConfigs
  /\ firebaseInitializationError = InitializationError(firebase_config)
  /\ IF firebaseInitializationError
     THEN authSession = NoUser /\ authPending = FALSE /\ authSubscribed = FALSE
     ELSE authSession \in {NoUser, "u1"} /\ authPending = TRUE /\ authSubscribed = TRUE
  /\ dbProjects = SeedProjects
  /\ dbInvestors = SeedInvestors
  /\ dbPipeline = SeedPipelineAll
  /\ usedIds = [projects |-> ProjectIdPool, investors |-> InvestorIdPool]
  /\ InitApp

SpecConfig == InitConfig /\ [][NextDelete]_vars

\* ------------------------------------------------------------ SpecRating
\* Imports of one data line whose "Nota" cell holds a rating as a user may
\* type it: in range, too large, negative, followed by other characters,
\* empty.
RatingTokens ==
  {<<"4">>, <<"9">>, <<"-", "2">>, <<"1", "2", "x">>, <<"3", "x">>, << >>}

RatingTexts ==
  {CsvText(<<CoreHeader, << <<"Zed">>, <<"VC">>, t >> >>) : t \in RatingTokens}

NextRating ==
  \/ SessionStep
  \/ SnapshotStep
  \/ OpenCsvModal
  \/ CloseCsvModal
  \/ \E text \in RatingTexts : csvData = << >> /\ SetCsvData(text)
  \/ \E now \in {1} : handleImport(now)
  \/ ImportCommitOk

SpecRating == InitImport /\ [][NextRating]_vars

\* ---------------------------------------------------------- SpecPipeline
\* Every write to the pipeline of the project selected at load: investors
\* are added, rows and cards are starred, cards are dropped on columns and
\* interactions are logged from the profile.  The user waits for the answer
\* to one operation before starting the next and, outside the add dialog,
\* for the pipeline snapshot.
NextPipeline ==
  \/ SessionStep
  \/ SnapshotStep
  \/ AddCommitOk
  \/ UpdateOk
  \/ UpdateFail
  \/ /\ pending = [add |-> NoBatch, import |-> NoBatch, update |-> NoBatch]
     /\ \/ OpenAddModal
        \/ \E id \in InvestorIdPool : toggleSelection(id)
        \/ handleAdd
  \/ /\ pending = [add |-> NoBatch, import |-> NoBatch, update |-> NoBatch]
     /\ \A sub \in pipeSubs : ~sub.due
     /\ \/ \E page \in {"dashboard", "kanban"} : SetCurrentPage(page)
        \/ \E id \in InvestorIdPool, n \in {1, StarCount} : handlePriorityChange(id, n)
        \/ \E id \in InvestorIdPool, st \in {statuses[6]} : handleDrop(id, st)
        \/ \E i \in {1} : /\ i <= Len(projectInvestors)
                           /\ handleSelectInvestor(projectInvestors[i], FALSE)
        \/ \E notes \in NoteTexts : SetInteractionNotes(notes)
        \/ \E tipo \in {"Email"}, now \in {1} : handleAddInteraction(tipo, now, TRUE)

SpecPipeline == Init /\ [][NextPipeline]_vars

\* ------------------------------------------------------------ SpecKanban
\* The board and the dashboard over a pipeline whose first entry has any of
\* the statuses, a priority and a logged interaction: cards are dropped on
\* every column and rows are starred, one update at a time and after the
\* pipeline snapshot.
LoggedEntry(st) ==
  [notaDePrioridade |-> StarCount, status |-> st,
   historicoDeInteracoes |->
     StoredInteractions(<<[data |-> JsDate(1), tipo |-> "Email",
                           anotacoes |-> <<"ok">>]>>)]

InitKanban ==
  /\ InitSession
  /\ dbProjects = SeedProjects
  /\ dbInvestors = SeedInvestors
  /\ \E st \in Range(statuses) :
       dbPipeline = [u \in AllUsers |-> [p \in ProjectIdPool |->
                       IF u # "u1" THEN EmptyColl
                       ELSE IF p = 1
                            THEN [i \in {1, 2} |->
                                    IF i = 1 THEN LoggedEntry(st) ELSE DefaultEntry]
                            ELSE [i \in {1} |-> EditedEntry]]]
  /\ usedIds = [projects |-> ProjectIdPool, investors |-> InvestorIdPool]
  /\ InitApp

NextKanban ==
  \/ SessionStep
  \/ SnapshotStep
  \/ UpdateOk
  \/ UpdateFail
  \/ /\ \A sub \in pipeSubs : ~sub.due
     /\ \/ \E page \in {"dashboard", "kanban"} : SetCurrentPage(page)
        \/ \E id \in {1, 2}, st \in Range(statuses) : handleDrop(id, st)
        \/ \E id \in {1, 2}, n \in {1, StarCount} : handlePriorityChange(id, n)

SpecKanban == InitKanban /\ [][NextKanban]_vars

\* ---------------------------------------------------------- SpecReselect
\* The profile stays open while the project selector of the nav is used:
\* SpecProfile's steps, with one interaction type and an accepting store,
\* and the reselection.
NextReselect ==
  \/ SessionStep
  \/ SnapshotStep
  \/ SelectStep
  \/ \E i \in 1..Len(projectInvestors) : handleSelectInvestor(projectInvestors[i], FALSE)
  \/ handleBack
  \/ \E notes \in NoteTexts : SetInteractionNotes(notes)
  \/ \E tipo \in {"Email"}, now \in {1} : handleAddInteraction(tipo, now, TRUE)

SpecReselect == InitProfile /\ [][NextReselect]_vars

\* ----------------------------------------------------------- SpecLoading
\* Loading after sign-in: the listeners deliver or fail in any order, the
\* user signs out and in again.  The investors listener, once opened, does
\* deliver its snapshot or its error.
NextLoading ==
  \/ SessionStep
  \/ SignOut
  \/ SnapshotStep
  \/ ProjectsError
  \/ InvestorsError
  \/ PipelineError

SpecLoading ==
  Init /\ [][NextLoading]_vars /\ WF_vars(InvestorsSnapshot \/ InvestorsError)

\* ================================================================ claims
ViewIds(view) == {view[i].id : i \in 1..Len(view)}

\* C2: at most one pipeline listener is live, and it is the listener of the
\* selected project of the current user, so no snapshot of a project selected
\* before is applied after a reselection; once the live listener has delivered,
\* the derived view holds only entries of the selected project's pipeline, and
\* it is exactly the join of that pipeline when no delivery is due.
C2_PipelineFollowsSelection ==
  /\ Cardinality(pipeSubs) <= 1
  /\ \A sub \in pipeSubs :
       /\ sub.user = userId /\ sub.project = selectedProjectId
       /\ sub.delivered =>
            /\ ViewIds(projectInvestors) \subseteq
                 DOMAIN dbPipeline[userId][selectedProjectId]
            /\ ~sub.due =>
                 projectInvestors =
                   Join(masterInvestors,
                        PipelineDocs(dbPipeline[userId][selectedProjectId]))

\* the selection moved from project 1 (selected first) to project 2, whose
\* listener has delivered; project 1 holds an entry project 2 does not
C2_Witness ==
  /\ selectedProjectId = 2
  /\ \E sub \in pipeSubs : sub.project = 2 /\ sub.delivered
  /\ projectInvestors # << >>
  /\ \E i \in DOMAIN dbPipeline["u1"][1] : i \notin DOMAIN dbPipeline["u1"][2]

\* C9: a committed add-to-pipeline batch for the identifiers S chosen in the
\* dialog against project P leaves P's pipeline with the entries it had plus
\* one entry per identifier of S, each with priority 3, status "Nao Contatado"
\* and an empty history (an entry S names that existed is overwritten by these
\* values, never duplicated); nothing else in the store changes.
C9_AddCreatesDefaultEntries ==
  [][/\ handleAdd =>
          /\ pending'.add.ids = selectedInvestors
          /\ pending'.add.project = selectedProjectId
          /\ pending'.add.user = userId
     /\ AddCommitOk =>
          LET b == pending.add
              old == dbPipeline[b.user][b.project]
              new == dbPipeline'[b.user][b.project]
          IN /\ DOMAIN new = (DOMAIN old) \cup Range(b.ids)
             /\ \A i \in Range(b.ids) :
                  /\ DOMAIN new[i] =
                       {"notaDePrioridade", "status", "historicoDeInteracoes"}
                  /\ new[i].notaDePrioridade = 3
                  /\ new[i].status = "Nao Contatado"
                  /\ new[i].historicoDeInteracoes = << >>
             /\ \A i \in (DOMAIN old) \ Range(b.ids) : new[i] = old[i]
             /\ \A u \in AllUsers, p \in ProjectIdPool :
                  <<u, p>> # <<b.user, b.project>> =>
                    dbPipeline'[u][p] = dbPipeline[u][p]
             /\ UNCHANGED <<dbProjects, dbInvestors>>]_vars

\* a batch for two investors was committed into the first project, where the
\* first investor had an edited entry: that entry holds the defaults again
C9_Witness ==
  /\ toast = Toast("investidor(es) adicionado(s) com sucesso!", 2, "success")
  /\ DOMAIN dbPipeline["u1"][1] = {1, 2}
  /\ \A i \in {1, 2} : /\ dbPipeline["u1"][1][i].notaDePrioridade = 3
                       /\ dbPipeline["u1"][1][i].status = "Nao Contatado"

\* C10: while the add-to-pipeline dialog is open, no investor it offers has a
\* pipeline entry in the selected project in the record store.
C10_CandidatesExcludePipeline ==
  (isAddInvestorModalOpen /\ userId # NoUser /\ selectedProjectId # Null) =>
    \A i \in 1..Len(availableInvestors) :
      availableInvestors[i].id \notin DOMAIN dbPipeline[userId][selectedProjectId]

\* C8: both batched writes are all-or-nothing. Nothing is written before the
\* single commit: while a batch is in flight none of its records is stored.
\* When the commit of an import fails the master list is unchanged and holds
\* none of the batch's records; when the commit of an add fails every pipeline
\* is unchanged. In both cases an error toast is shown, the dialog stays as
\* it was (open) and its in-progress flag is cleared.
C8_NoneStoredInFlight ==
  pending.import # NoBatch =>
    (DOMAIN pending.import.docs) \cap (DOMAIN dbInvestors[pending.import.user]) = {}

C8_BatchAllOrNothing ==
  /\ []C8_NoneStoredInFlight
  /\ [][/\ ((\E now \in Dates : handleImport(now)) \/ handleAdd) =>
             UNCHANGED <<dbProjects, dbInvestors, dbPipeline>>
        /\ ImportCommitFail =>
             /\ UNCHANGED <<dbProjects, dbInvestors, dbPipeline>>
             /\ (DOMAIN pending.import.docs)
                   \cap (DOMAIN dbInvestors'[pending.import.user]) = {}
             /\ toast'.type = "error"
             /\ isCsvModalOpen' = isCsvModalOpen
             /\ isImporting' = FALSE
        /\ AddCommitFail =>
             /\ UNCHANGED <<dbProjects, dbInvestors, dbPipeline>>
             /\ toast'.type = "error"
             /\ isAddInvestorModalOpen' = isAddInvestorModalOpen
             /\ isAdding' = FALSE]_vars

\* an import batch failed earlier (its identifiers were handed out and never
\* stored) and an add batch has just failed with its dialog still open
C8_Witness ==
  /\ \E i \in usedIds.investors : i \notin DOMAIN dbInvestors["u1"]
  /\ pending.import = NoBatch /\ pending.add = NoBatch
  /\ toast = Toast("Falha ao adicionar investidores.", 0, "error")
  /\ isAddInvestorModalOpen /\ ~isAdding /\ selectedInvestors # << >>
  /\ dbPipeline = EmptyPipelines

\* C1: every successful append of an interaction keeps what the entry's
\* history held, unchanged and in order, and stores the new interaction as
\* the last element, also for appends that follow one another from the same
\* open profile.
C1_AppendPreservesHistory ==
  [][\A tipo \in InteractionTypes, now \in Dates :
       (handleAddInteraction(tipo, now, TRUE) /\ dbPipeline' # dbPipeline) =>
         LET id == selectedInvestor[1].id
             old == dbPipeline[userId][selectedProjectId][id].historicoDeInteracoes
             new == dbPipeline'[userId][selectedProjectId][id].historicoDeInteracoes
         IN /\ Len(new) = Len(old) + 1
            /\ SubSeq(new, 1, Len(old)) = old
            /\ new[Len(new)] = [data |-> [ts |-> now], tipo |-> tipo,
                                anotacoes |-> interactionNotes]]_vars

\* C3: once the pipeline listener re-opened after an investors snapshot has
\* delivered, the derived view holds no record whose identifier the master
\* list lacks; in particular none for a deleted investor that a pipeline
\* entry still names.
C3_DeletedMasterDropped ==
  \A sub \in pipeSubs :
    sub.delivered => ViewIds(projectInvestors) \subseteq ViewIds(masterInvestors)

\* a pipeline entry of the selected project names an investor deleted from
\* the store and gone from the master list; the re-opened listener has
\* delivered, and the view holds the other entries only
C3_Witness ==
  /\ userId = "u1" /\ selectedProjectId # Null
  /\ \E sub \in pipeSubs : sub.delivered
  /\ projectInvestors # << >>
  /\ \E id \in DOMAIN dbPipeline["u1"][selectedProjectId] :
       /\ id \notin DOMAIN dbInvestors["u1"]
       /\ id \notin ViewIds(masterInvestors)
       /\ id \notin ViewIds(projectInvestors)

\* the documents of a pipeline snapshot that name a master investor
Matched(master, docs) ==
  SelectSeq(docs, LAMBDA d : \E i \in 1..Len(master) : master[i].id = d.id)

\* C4: the view a pipeline snapshot produces is determined by the master
\* list and the snapshot alone: one record per document whose identifier is
\* a master investor's, in snapshot order, none for the others; a record has
\* the fields of both, with the document's value for a name both have.
C4_JoinIsMergeOfMatched ==
  \A sub \in pipeSubs :
    (sub.delivered /\ ~sub.due) =>
      LET docs == PipelineDocs(dbPipeline[sub.user][sub.project])
          hit == Matched(sub.master, docs)
          out == projectInvestors
      IN /\ Len(out) = Len(hit)
         /\ \A k \in 1..Len(hit) :
              \E i \in 1..Len(sub.master) :
                LET m == sub.master[i]
                    d == hit[k].data
                IN /\ m.id = hit[k].id
                   /\ DOMAIN out[k] = (DOMAIN m) \cup (DOMAIN d) \cup {"id"}
                   /\ out[k].id = hit[k].id
                   /\ \A f \in DOMAIN d : out[k][f] = d[f]
                   /\ \A f \in (DOMAIN m) \ (DOMAIN d) : out[k][f] = m[f]

\* a snapshot of three documents was joined: one names no master investor,
\* two do, and one of those carries a master field with another value
C4_Witness ==
  /\ \E sub \in pipeSubs : sub.delivered /\ ~sub.due
  /\ Len(projectInvestors) = 2
  /\ Cardinality(DOMAIN dbPipeline["u1"][1]) = 3
  /\ selectedProjectId = 1
  /\ \E k \in 1..2 : /\ projectInvestors[k].nota = 9
                     /\ masterInvestors[k].nota # 9

\* the cell of data line k under the last column headed H; empty when no
\* column is headed H or the line has no such cell
Cell(grid, k, H) ==
  LET cols == {c \in 1..Len(grid[1]) : grid[1][c] = H}
      col == CHOOSE c \in cols : \A d \in cols : d <= c
  IN IF cols # {} /\ col <= Len(grid[k + 1]) THEN grid[k + 1][col] ELSE << >>

\* the rating of a cell: the integer it starts with, 0 when it starts with none
NotaOf(cell) ==
  CASE cell = <<"4">> -> 4
    [] cell = <<"5">> -> 5
    [] cell = <<"3", "x">> -> 3
    [] OTHER -> 0

\* the record data line k of the grid stands for
Expected(grid, k, now) ==
  [nomeFantasia |-> Cell(grid, k, HNomeFantasia),
   classificacao |-> Cell(grid, k, HClassificacao),
   tipo |-> Cell(grid, k, HTipo),
   setor |-> Cell(grid, k, HSetor),
   creditoEquity |-> Cell(grid, k, HCreditoEquity),
   nota |-> NotaOf(Cell(grid, k, HNota)),
   justificativa |-> Cell(grid, k, HJustificativa),
   email1 |-> Cell(grid, k, HEmail1),
   email2 |-> Cell(grid, k, HEmail2),
   telefone |-> Cell(grid, k, HTelefone),
   linkedin |-> Cell(grid, k, HLinkedin),
   dataDeCriacao |-> [ts |-> now]]

\* the texts of each grid
GridTexts == [g \in ImportGrids |-> TextsOf(g)]

\* the user presses "Importar" on a text of the grid g
ImportOf(g, now) ==
  /\ isCsvModalOpen /\ ~isImporting
  /\ csvData \in GridTexts[g]
  /\ handleImport(now)

\* the bijections between the lines 1..n and the identifiers of a batch
LinesToIds(n, ids) ==
  {f \in [1..n -> ids] : \A a, b \in 1..n : a # b => f[a] # f[b]}

\* C5: an import of a header line and N >= 1 data lines puts N records in one
\* batch, each under an identifier never used before and distinct from the
\* others, record k with the fields of line k under the recognised headers and
\* empty (rating 0) defaults where a header or a cell is missing; the commit
\* adds exactly these N records and leaves every stored record as it was.
C5_ImportAddsMappedRecords ==
  [][/\ \A g \in ImportGrids, now \in Dates :
          ImportOf(g, now) =>
            LET b == pending'.import
                N == Len(g) - 1
            IN /\ b # NoBatch /\ b.user = userId /\ b.n = N
               /\ Cardinality(DOMAIN b.docs) = N
               /\ (DOMAIN b.docs) \cap (DOMAIN dbInvestors[userId]) = {}
               /\ (DOMAIN b.docs) \cap usedIds.investors = {}
               /\ \E f \in LinesToIds(N, DOMAIN b.docs) :
                    \A k \in 1..N : b.docs[f[k]] = Expected(g, k, now)
               /\ UNCHANGED <<dbProjects, dbInvestors, dbPipeline>>
     /\ ImportCommitOk =>
          LET b == pending.import
              old == dbInvestors[b.user]
              new == dbInvestors'[b.user]
          IN /\ DOMAIN new = (DOMAIN old) \cup (DOMAIN b.docs)
             /\ Cardinality(DOMAIN new) = Cardinality(DOMAIN old) + b.n
             /\ \A i \in DOMAIN old : new[i] = old[i]
             /\ \A i \in DOMAIN b.docs : new[i] = b.docs[i]
             /\ \A u \in AllUsers \ {b.user} : dbInvestors'[u] = dbInvestors[u]
             /\ UNCHANGED <<dbProjects, dbPipeline>>]_vars

\* an import of one short line under the swapped header was committed next
\* to the investor the master list held: that investor is as it was, and the
\* new record has the line's only cell as its rating text (so rating 0) and
\* empty defaults elsewhere
C5_Witness ==
  /\ toast = Toast("investidores importados com sucesso!", 1, "success")
  /\ DOMAIN dbInvestors["u1"] = {1, 2}
  /\ dbInvestors["u1"][1] = SeedInvestors["u1"][1]
  /\ dbInvestors["u1"][2].nota = 0
  /\ dbInvestors["u1"][2].nomeFantasia = << >>
  /\ dbInvestors["u1"][2].email1 = << >>

\* texts without a data line
ZeroLineTexts == BlankTexts \cup {CsvText(g) : g \in HeaderOnlyGrids}

\* C6: an import of a text without data lines is rejected: an error toast is
\* shown and no batch is built or committed; no commit reports the import of
\* zero records as a success.
C6_NoDataLinesRejected ==
  [][/\ \A now \in Dates :
          (isCsvModalOpen /\ ~isImporting /\ csvData \in ZeroLineTexts
             /\ handleImport(now)) =>
            /\ toast'.type = "error"
            /\ pending'.import = NoBatch
     /\ ImportCommitOk => pending.import.n >= 1]_vars

\* a rating cell that holds something other than a decimal integer
NonNumericToken(cell) ==
  /\ cell # << >>
  /\ \E i \in 1..Len(cell) : ~IsDigit(cell[i]) /\ ~(i = 1 /\ cell[i] \in {"-", "+"})

\* a rating cell that does not start with a decimal integer
NoLeadingInteger(cell) ==
  /\ cell # << >>
  /\ ~IsDigit(cell[1])
  /\ ~(Len(cell) > 1 /\ cell[1] \in {"-", "+"} /\ IsDigit(cell[2]))

\* the grid with the rating cells that satisfy P replaced by "5"
NumericTwin(grid, P(_)) ==
  [r \in 1..Len(grid) |->
     IF r = 1 THEN grid[1]
     ELSE [c \in 1..Len(grid[r]) |->
             IF c <= Len(grid[1]) /\ grid[1][c] = HNota /\ P(grid[r][c])
             THEN <<"5">> ELSE grid[r][c]]]

\* the batch handleImport builds for the grid is the batch of the twin grid
\* with rating 0 in the records of the lines whose rating cell satisfies P
RatingZeroElseTwin(g, now, P(_)) ==
  LET b == pending'.import
      N == Len(g) - 1
      twin == InvestorsToImport(CsvText(NumericTwin(g, P)))
  IN /\ b # NoBatch /\ b.n = N
     /\ \E f \in LinesToIds(N, DOMAIN b.docs) :
          \A k \in 1..N :
            b.docs[f[k]] =
              IF P(Cell(g, k, HNota))
              THEN [MappedData(twin[k], now) EXCEPT !.nota = 0]
              ELSE MappedData(twin[k], now)

\* C7 as stated: a data line whose rating cell holds a non-numeric token gives
\* a record with rating 0, all else as with a numeric rating.
C7_NonNumericNotaIsZero ==
  [][\A g \in ImportGrids, now \in Dates :
       ImportOf(g, now) =>
         RatingZeroElseTwin(g, now, NonNumericToken)]_vars

\* C7 amended: a data line whose rating cell does not start with a decimal
\* integer (an optional sign, then a digit) gives a record with rating 0;
\* every other field of that record and every field of the other records are
\* as they are when the cell holds a number.
C7_UnparsableNotaIsZero ==
  [][\A g \in ImportGrids, now \in Dates :
       ImportOf(g, now) =>
         RatingZeroElseTwin(g, now, NoLeadingInteger)]_vars

\* the two-line text was imported: the line with rating "x" is stored with
\* rating 0 and its other cells, the line with rating "4" with rating 4
C7_Witness ==
  /\ toast = Toast("investidores importados com sucesso!", 2, "success")
  /\ \E i, j \in DOMAIN dbInvestors["u1"] :
       /\ dbInvestors["u1"][i].nomeFantasia = <<"Bolt">>
       /\ dbInvestors["u1"][i].classificacao = <<"PE">>
       /\ dbInvestors["u1"][i].nota = 0
       /\ dbInvestors["u1"][j].nomeFantasia = <<"Acme">>
       /\ dbInvestors["u1"][j].nota = 4

\* C11: the candidates of the add dialog are the master investors, in the
\* master list's order and once each, whose identifier is not in the derived
\* view, whose classification is the classification filter when one is set
\* and whose sector is the sector filter when one is set; with the filters
\* "VC" and none they are exactly the investors tagged "VC" outside the view.
C11_CandidatesAreFilteredMaster ==
  isAddInvestorModalOpen =>
    LET out == availableInvestors
        inView == ViewIds(projectInvestors)
        passes(m) == /\ m.id \notin inView
                     /\ classificationFilter # << >> =>
                          m.classificacao = classificationFilter
                     /\ sectorFilter # << >> => m.setor = sectorFilter
    IN /\ \A i \in 1..Len(out) :
            /\ passes(out[i])
            /\ \E j \in 1..Len(masterInvestors) : masterInvestors[j] = out[i]
       /\ \A j \in 1..Len(masterInvestors) :
            passes(masterInvestors[j]) =>
              \E i \in 1..Len(out) : out[i] = masterInvestors[j]
       /\ \A i, j \in 1..Len(out) : i < j => out[i].id < out[j].id
       /\ (classificationFilter = <<"VC">> /\ sectorFilter = << >>) =>
            ViewIds(out) =
              {masterInvestors[j].id : j \in
                 {k \in 1..Len(masterInvestors) :
                    /\ masterInvestors[k].classificacao = <<"VC">>
                    /\ masterInvestors[k].id \notin inView}}

\* the dialog is open with the classification filter "VC" and no sector
\* filter over a master list of a "VC" investor that is in the view, and of
\* one that is not and of another sector: only the latter is offered
C11_Witness ==
  /\ isAddInvestorModalOpen
  /\ classificationFilter = <<"VC">> /\ sectorFilter = << >>
  /\ Len(masterInvestors) = 2
  /\ masterInvestors[1].classificacao = <<"VC">>
  /\ masterInvestors[2].classificacao = <<"VC">>
  /\ masterInvestors[1].setor # masterInvestors[2].setor
  /\ ViewIds(projectInvestors) = {1}
  /\ ViewIds(availableInvestors) = {2}

\* C12: a projects snapshot that is not empty and is delivered while no
\* project is selected makes the first project of the snapshot the selected
\* project.
C12_FirstProjectSelected ==
  [][(ProjectsSnapshot /\ selectedProjectId = Null /\ projects' # << >>)
       => selectedProjectId' = projects'[1].id]_vars

\* C13: whenever the projects view becomes empty, by an empty projects
\* snapshot or by the reset the data effect makes when the identity goes
\* absent, the project selection is cleared.
C13_EmptyViewClearsSelection ==
  [][(/\ projects' = << >>
      /\ \/ ProjectsSnapshot
         \/ AuthStateChanged /\ authSession = NoUser /\ userId # NoUser)
       => selectedProjectId' = Null]_vars

\* C14: while no user is signed in after a sign-out, the projects view, the
\* master view and the derived view are empty, the data-loading flag is
\* cleared and no projects, investors or pipeline listener is live, so no
\* snapshot of the previous identity's listeners changes a view; a live
\* listener is always a listener of the current identity.
C14_SignOutReleasesEverything ==
  /\ userId = NoUser =>
       /\ projects = << >> /\ masterInvestors = << >> /\ projectInvestors = << >>
       /\ ~isDataLoading
       /\ dataSubs = {} /\ pipeSubs = {}
  /\ \A sub \in dataSubs : sub.user = userId
  /\ \A sub \in pipeSubs : sub.user = userId

\* signed out after a session in which a project was selected and the three
\* listeners had been opened
C14_Witness ==
  /\ userId = NoUser /\ ~authPending /\ ~isAuthLoading
  /\ selectedProjectId # Null
  /\ projects = << >> /\ dataSubs = {} /\ pipeSubs = {}

\* C15: every session-change notification sets the identity to the notified
\* user, or to none, and clears the still-determining flag; once cleared the
\* flag is never set again.
C15_NotificationSetsIdentity ==
  [][/\ AuthStateChanged => (userId' = authSession /\ ~isAuthLoading')
     /\ ~isAuthLoading => ~isAuthLoading']_vars

\* a second session: "u2" was notified after "u1" had selected a project
C15_Witness ==
  /\ userId = "u2" /\ ~authPending /\ ~isAuthLoading
  /\ selectedProjectId = 1

\* the configurations the initialisation must reject
ConfigRejected ==
  \/ ~firebase_config.defined
  \/ firebase_config.projectId = << >>
  \/ firebase_config.apiKey = << >>

\* C16: when the injected configuration is missing or lacks the project id
\* or the API key, the initialisation error is set and stays set, only the
\* error display is rendered (never the login page or the main view), no
\* identity listener and no store listener is open, no notification is due,
\* and no step is ever taken: no write, no subscription, no second
\* initialisation.
C16_ConfigErrorIsPermanent ==
  /\ [](ConfigRejected =>
          /\ firebaseInitializationError
          /\ ~MainView /\ ~LoginView
          /\ ~authSubscribed /\ ~authPending
          /\ dataSubs = {} /\ pipeSubs = {}
          /\ userId = NoUser
          /\ pending = [add |-> NoBatch, import |-> NoBatch, update |-> NoBatch])
  /\ [][~ConfigRejected]_vars
  /\ [][firebaseInitializationError' = firebaseInitializationError]_vars

\* the configuration has a project id and no API key: the error display
C16_Witness ==
  /\ firebase_config.defined
  /\ firebase_config.projectId # << >> /\ firebase_config.apiKey = << >>
  /\ firebaseInitializationError

\* C17: every failed mutation of the record store (project create, investor
\* delete, import commit, add commit, priority update, status update,
\* interaction append) leaves an error notification showing and nothing in
\* flight that would be issued again.
C17_FailedMutationNotified ==
  [][(\/ \E name \in ProjectNames, now \in Dates : ProjectSubmit(name, now, FALSE)
      \/ confirmDelete(FALSE)
      \/ ImportCommitFail
      \/ AddCommitFail
      \/ UpdateFail
      \/ \E tipo \in InteractionTypes, now \in Dates :
           handleAddInteraction(tipo, now, FALSE))
       => /\ toast'.type = "error"
          /\ pending' = [add |-> NoBatch, import |-> NoBatch, update |-> NoBatch]]_vars

\* C18: every investor record of the store has an integer rating between 0
\* and 5 inclusive, whatever the rating tokens of the imported texts.
C18_RatingInRange ==
  \A u \in AllUsers : \A id \in DOMAIN dbInvestors[u] :
    dbInvestors[u][id].nota \in 0..StarCount

\* C19: every pipeline entry of the store, after any sequence of additions,
\* priority changes, status drops and interaction appends, has an integer
\* priority between 1 and 5 inclusive and a status that is one of the six
\* statuses of the board.
C19_EntriesWellFormed ==
  \A u \in AllUsers : \A p \in DOMAIN dbPipeline[u] :
    \A id \in DOMAIN dbPipeline[u][p] :
      LET e == dbPipeline[u][p][id]
      IN /\ "notaDePrioridade" \in DOMAIN e
         /\ e.notaDePrioridade \in 1..5
         /\ "status" \in DOMAIN e
         /\ \E k \in 1..6 : e.status = statuses[k]

\* the seeded entry was starred down to 1, dropped on the last column and
\* given an interaction, and the second investor was added beside it
C19_Witness ==
  LET coll == dbPipeline["u1"][1]
  IN /\ {1, 2} \subseteq DOMAIN coll
     /\ coll[1].notaDePrioridade = 1
     /\ coll[1].status = statuses[6]
     /\ Len(coll[1].historicoDeInteracoes) >= 1
     /\ coll[2] = DefaultEntry

\* C20: a delete of a master investor removes that investor's master record
\* and nothing else: every pipeline entry, in every project, stays in the
\* store unchanged, every other investor record stays unchanged, and so do
\* the projects; the store changes only in the step of the confirmation's
\* confirm button, and opening or cancelling the confirmation writes nothing.
C20_DeleteRemovesOnlyMaster ==
  [][/\ dbPipeline' = dbPipeline
     /\ dbProjects' = dbProjects
     /\ dbInvestors' # dbInvestors =>
          /\ confirmDelete(TRUE)
          /\ investorToDelete # Null
          /\ \A u \in AllUsers :
               /\ DOMAIN dbInvestors'[u] =
                    IF u = userId THEN (DOMAIN dbInvestors[u]) \ {investorToDelete}
                    ELSE DOMAIN dbInvestors[u]
               /\ \A id \in DOMAIN dbInvestors'[u] :
                    dbInvestors'[u][id] = dbInvestors[u][id]
     /\ (\/ CancelDelete
         \/ confirmDelete(FALSE)
         \/ \E i \in 1..Len(masterInvestors) : handleDeleteClick(masterInvestors[i]))
          => UNCHANGED storeVars]_vars

\* investor 1 was deleted after the confirmation; its entries in both
\* projects are still in the store as they were
C20_Witness ==
  /\ 1 \notin DOMAIN dbInvestors["u1"]
  /\ DOMAIN dbInvestors["u1"] # {}
  /\ investorToDelete = Null
  /\ toast.type = "success"
  /\ dbPipeline = SeedPipelineAll
  /\ 1 \in DOMAIN dbPipeline["u1"][1] /\ 1 \in DOMAIN dbPipeline["u1"][2]

\* a record-store call is issued in this step: a batch or an update goes in
\* flight, or a single document is written or deleted
MutationStarted ==
  \/ \E k \in {"add", "import", "update"} :
       pending[k] = NoBatch /\ pending'[k] # NoBatch
  \/ pending' = pending /\ storeVars' # storeVars

\* C21: the main view is rendered only with a user identity present and
\* with neither the still-determining flag nor the data-loading flag set;
\* every record-store call is issued from a state in which that holds; and
\* while the identity is absent no projects, investors or pipeline listener
\* is open.
C21_SessionGatesEverything ==
  /\ [](MainView => (userId # NoUser /\ ~isAuthLoading /\ ~isDataLoading))
  /\ [](userId = NoUser => (dataSubs = {} /\ pipeSubs = {}))
  /\ [][MutationStarted =>
          (userId # NoUser /\ ~isAuthLoading /\ ~isDataLoading)]_vars

\* a project was created from the main view of a session whose three
\* listeners are open
C21_Witness ==
  /\ MainView
  /\ toast = Toast("Projeto criado com sucesso!", 0, "success")
  /\ dataSubs # {} /\ pipeSubs # {}
  /\ Len(projects) >= 1

\* the answer to an update arrives in this step
UpdateAnswered == pending.update # NoBatch /\ pending'.update = NoBatch

\* the entry the update in flight names is the only thing of the pipelines
\* that differs after the step, and it differs in the named field only
OnlyFieldChanged ==
  LET b == pending.update
      old == dbPipeline[b.user][b.project][b.id]
      new == dbPipeline'[b.user][b.project][b.id]
  IN /\ \A u \in AllUsers : \A p \in DOMAIN dbPipeline[u] :
          /\ DOMAIN dbPipeline'[u][p] = DOMAIN dbPipeline[u][p]
          /\ \A id \in DOMAIN dbPipeline[u][p] :
               <<u, p, id>> # <<b.user, b.project, b.id>> =>
                 dbPipeline'[u][p][id] = dbPipeline[u][p][id]
     /\ DOMAIN new = DOMAIN old
     /\ \A f \in DOMAIN old :
          new[f] = IF f \in DOMAIN b.fields THEN b.fields[f] ELSE old[f]
     /\ DOMAIN b.fields \in {{"status"}, {"notaDePrioridade"}}

\* C22: on the board every card can be dropped on every column, whatever
\* the card's status; the answer to a status drop or a priority change
\* either leaves the pipelines as they were (rejected) or, in one step, sets
\* the dropped-on status, respectively the clicked priority, in that one
\* entry and changes no other field of it (its interaction history
\* included) and no other entry.
C22_DropIsAnyToAnyAndLocal ==
  /\ [](/\ KanbanShown /\ ~ModalOpen /\ pending.update = NoBatch
        /\ selectedProjectId # Null
        => \A i \in 1..Len(projectInvestors) :
             projectInvestors[i].status \in Range(statuses) =>
               \A k \in 1..6 : ENABLED handleDrop(projectInvestors[i].id, statuses[k]))
  /\ [][UpdateAnswered => (dbPipeline' = dbPipeline \/ OnlyFieldChanged)]_vars
  /\ [][dbPipeline' # dbPipeline => UpdateAnswered]_vars

\* the first card lies in the first column with priority 1 after a star
\* click, the view shows it there, its history is the logged one, and the
\* second entry and the other project's entry are as they were
C22_Witness ==
  LET e == dbPipeline["u1"][1][1]
  IN /\ \E sub \in pipeSubs : sub.delivered /\ ~sub.due
     /\ KanbanShown
     /\ \E i \in 1..Len(projectInvestors) :
          projectInvestors[i].id = 1 /\ projectInvestors[i].status = statuses[1]
     /\ e.status = statuses[1] /\ e.notaDePrioridade = 1
     /\ e.historicoDeInteracoes = LoggedEntry(statuses[1]).historicoDeInteracoes
     /\ dbPipeline["u1"][1][2] = DefaultEntry
     /\ dbPipeline["u1"][2][1] = EditedEntry

\* C23: a projects snapshot that is not empty and is delivered while a
\* project is selected leaves the selection unchanged.
C23_SnapshotKeepsSelection ==
  [][(ProjectsSnapshot /\ selectedProjectId # Null /\ projects' # << >>)
       => selectedProjectId' = selectedProjectId]_vars

\* C24: whenever a project is selected and the projects listener of the
\* current identity has delivered its latest snapshot, the selected
\* identifier is the identifier of a project of the projects view.
C24_SelectionIsInView ==
  (/\ selectedProjectId # Null
   /\ userId # NoUser
   /\ \E sub \in dataSubs : sub.user = userId /\ ~sub.projDue)
    => selectedProjectId \in ViewIds(projects)

\* the displayed investor's entry in project p carries the priority and the
\* status the profile displays; where no step changes priorities or statuses
\* and the projects' entries of an investor differ in them, p is the project
\* the profile was opened from
OpenedFrom(p) ==
  LET shown == selectedInvestor[1]
  IN /\ shown.id \in DOMAIN dbPipeline[userId][p]
     /\ dbPipeline[userId][p][shown.id].status = shown.status
     /\ dbPipeline[userId][p][shown.id].notaDePrioridade = shown.notaDePrioridade

\* C25: a step that changes a pipeline entry while a profile is open changes
\* only the displayed investor's entry of the project the profile was opened
\* from, also after the selected project was changed with the profile open.
C25_AppendStaysInOpenedProject ==
  [][dbPipeline' # dbPipeline =>
       /\ selectedInvestor # << >>
       /\ \A u \in AllUsers : \A p \in DOMAIN dbPipeline[u] :
            /\ DOMAIN dbPipeline'[u][p] = DOMAIN dbPipeline[u][p]
            /\ \A id \in DOMAIN dbPipeline[u][p] :
                 dbPipeline'[u][p][id] # dbPipeline[u][p][id] =>
                   /\ u = userId /\ id = selectedInvestor[1].id
                   /\ OpenedFrom(p)]_vars

\* a projects or a pipeline listener fails in this step
OtherListenerFails == ProjectsError \/ PipelineError

\* C26: every session-change notification of a signed-in user sets the
\* data-loading flag; the flag, once set, is eventually cleared; the step
\* that clears it is the investors listener's snapshot or error, whether or
\* not the projects snapshot has arrived; and the failure of a projects or
\* of a pipeline listener changes no view, no selection and no flag.
C26_LoadingEndsWithInvestors ==
  /\ [][(AuthStateChanged /\ authSession # NoUser /\ authSession # userId)
          => isDataLoading']_vars
  /\ (isDataLoading ~> ~isDataLoading)
  /\ [][(isDataLoading /\ ~isDataLoading')
          => (InvestorsSnapshot \/ InvestorsError)]_vars
  /\ [][OtherListenerFails =>
          UNCHANGED <<userId, isAuthLoading, isDataLoading, projects,
                      selectedProjectId, masterInvestors, projectInvestors,
                      toast>>]_vars

\* the main view is shown after the investors listener failed, with the
\* projects snapshot still due
C26_Witness ==
  /\ MainView
  /\ \E sub \in dataSubs : sub.invDead /\ sub.projDue /\ ~sub.projDead
  /\ projects = << >> /\ masterInvestors = << >>

\* C27: in every state the derived view is the join of the current master
\* list with the pipeline of the currently selected project (the pipelines
\* of the store do not change here, so every snapshot of a project's
\* pipeline is its stored content), also between a reselection or a
\* master-list change and the snapshot of the re-opened listener.
C27_ViewIsOfSelectedProject ==
  projectInvestors # << >> =>
    /\ userId # NoUser /\ selectedProjectId # Null
    /\ projectInvestors =
         Join(masterInvestors, PipelineDocs(dbPipeline[userId][selectedProjectId]))

====
